---- MODULE Spec2Model ----
(***************************************************************************)
(* The diet-plan segmenter formatDietPlan of the medicalAI pages: the      *)
(* Dashboard copy (src/unnamed/part_000, lines 35-93) and the Diet page    *)
(* copy (src/src/pages/Diet.tsx, lines 61-119).                            *)
(*                                                                         *)
(* A JavaScript string is a sequence of one-character strings.  The        *)
(* String and RegExp methods the code calls are operators that compute     *)
(* what the methods compute.                                               *)
(***************************************************************************)
EXTENDS Integers, Sequences, FiniteSets, TLC

VARIABLES
    page,               \* which copy of formatDietPlan runs
    dietPlan,           \* the argument of formatDietPlan
    nPieces,            \* how many pieces the argument was built from
    pc,                 \* position in formatDietPlan
    sections,           \* dietPlan.split('\n\n')
    idx,                \* index of the next section of sections.forEach
    currentSection,     \* let currentSection
    formattedSections,  \* const formattedSections
    reports,            \* Dashboard state: the reports shown
    rendering,          \* index of the report that reports.map is at
    diets,              \* const diet of the reports rendered so far
    currentUser,        \* useAuth().currentUser, its uid
    selectedFile,       \* Dashboard state: the file chosen
    loading,            \* Dashboard state
    error,              \* Dashboard state: the message shown when not empty
    store,              \* the documents of collection(db, 'reports')
    load,               \* the runs of the effect of the page, each with its position
    uploads,            \* the calls of handleUpload, each with its position and locals
    latestDietPlan,     \* Diet page state: <<>> for null, <<plan>> for a plan
    messages,           \* Chat state: the messages shown
    inputMessage,       \* Chat state: the text of the textarea
    reportContext,      \* Chat state: the summary of the latest report, or null
    reportFile,         \* Chat state: the file name of the latest report, or null
    sends               \* the calls of handleSendMessage, each with its position

\* formatDietPlan's argument and locals.
segmenter == <<page, dietPlan, nPieces, pc, sections, idx, currentSection, formattedSections>>

\* The Dashboard component around formatDietPlan, and the document store.
component ==
    <<reports, rendering, diets, currentUser, selectedFile, loading, error, store, load,
      uploads>>

\* The state of the Diet page and of the Chat page.
otherPages == <<latestDietPlan, messages, inputMessage, reportContext, reportFile, sends>>

vars == <<segmenter, component, otherPages>>

\* Neither the Diet page nor the Chat page is mounted.
noOtherPage ==
    /\ latestDietPlan = <<>>
    /\ messages = <<>>
    /\ inputMessage = <<>>
    /\ reportContext = "null"
    /\ reportFile = "null"
    /\ sends = <<>>

\* No page is mounted.
unmounted ==
    /\ noOtherPage
    /\ reports = <<>>
    /\ rendering = 0
    /\ diets = <<>>
    /\ currentUser = "null"
    /\ selectedFile = "null"
    /\ loading = FALSE
    /\ error = ""
    /\ store = <<>>
    /\ load = <<>>
    /\ uploads = <<>>

-----------------------------------------------------------------------------
(* Bounds *)

\* The argument is built from at most MaxPieces pieces.
MaxPieces == 3

-----------------------------------------------------------------------------
(* Characters *)

\* What the RegExp class \s matches, among the characters of the model.
WhiteSpace == {" ", "\t", "\n", "\r"}

\* Where ^ matches with the m flag: after one of these.
LineTerminators == {"\n", "\r"}

\* What the RegExp class \d matches.
Digits == {"0", "1", "2", "3", "4", "5", "6", "7", "8", "9"}

\* String.prototype.toLowerCase on one character.
LowerCaseOf ==
    ("A" :> "a") @@ ("B" :> "b") @@ ("C" :> "c") @@ ("D" :> "d") @@ ("E" :> "e") @@
    ("F" :> "f") @@ ("G" :> "g") @@ ("H" :> "h") @@ ("I" :> "i") @@ ("J" :> "j") @@
    ("K" :> "k") @@ ("L" :> "l") @@ ("M" :> "m") @@ ("N" :> "n") @@ ("O" :> "o") @@
    ("P" :> "p") @@ ("Q" :> "q") @@ ("R" :> "r") @@ ("S" :> "s") @@ ("T" :> "t") @@
    ("U" :> "u") @@ ("V" :> "v") @@ ("W" :> "w") @@ ("X" :> "x") @@ ("Y" :> "y") @@
    ("Z" :> "z")

toLowerCase(s) ==
    [i \in 1..Len(s) |-> IF s[i] \in DOMAIN LowerCaseOf THEN LowerCaseOf[s[i]] ELSE s[i]]

\* String.prototype.includes
includes(s, sub) ==
    \E i \in 1..(Len(s) - Len(sub) + 1) : SubSeq(s, i, i + Len(sub) - 1) = sub

\* The characters of s from index i on.
From(s, i) == SubSeq(s, i, Len(s))

\* String.prototype.trim
RECURSIVE trimStart(_)
trimStart(s) ==
    IF s # <<>> /\ Head(s) \in WhiteSpace THEN trimStart(Tail(s)) ELSE s

RECURSIVE trimEnd(_)
trimEnd(s) ==
    IF s # <<>> /\ s[Len(s)] \in WhiteSpace THEN trimEnd(SubSeq(s, 1, Len(s) - 1)) ELSE s

trim(s) == trimEnd(trimStart(s))

\* String.prototype.split with a non-empty separator: the pieces between the
\* occurrences of sep, found left to right; '' splits into [''].
RECURSIVE split(_, _)
split(s, sep) ==
    IF \E i \in 1..(Len(s) - Len(sep) + 1) : SubSeq(s, i, i + Len(sep) - 1) = sep
    THEN LET i == CHOOSE j \in 1..(Len(s) - Len(sep) + 1) :
                    /\ SubSeq(s, j, j + Len(sep) - 1) = sep
                    /\ \A k \in 1..(j - 1) : SubSeq(s, k, k + Len(sep) - 1) # sep
         IN  <<SubSeq(s, 1, i - 1)>> \o split(From(s, i + Len(sep)), sep)
    ELSE <<s>>

\* The replace without its g flag: the first occurrence only.
RECURSIVE removeBold_firstOnly(_)
removeBold_firstOnly(s) ==
    IF Len(s) < 2 THEN s
    ELSE IF s[1] = "*" /\ s[2] = "*" THEN From(s, 3)
    ELSE <<s[1]>> \o removeBold_firstOnly(Tail(s))

\* .replace(/\*\*/g, ''): every occurrence of two asterisks, left to right.
RECURSIVE removeBold(_)
removeBold(s) ==
    IF Len(s) < 2 THEN s
    ELSE IF s[1] = "*" /\ s[2] = "*" THEN removeBold(From(s, 3))
    ELSE <<s[1]>> \o removeBold(Tail(s))

\* The first index from i on whose character is not white space.
RECURSIVE skipSpace(_, _)
skipSpace(s, i) ==
    IF i <= Len(s) /\ s[i] \in WhiteSpace THEN skipSpace(s, i + 1) ELSE i

\* The replace without its m flag: only the start of the string is a line start.
RECURSIVE removeLineBullets_firstOnly(_, _)
removeLineBullets_firstOnly(s, i) ==
    IF i > Len(s) THEN <<>>
    ELSE IF /\ i = 1
            /\ s[i] \in {"-", "*"}
            /\ i < Len(s)
            /\ s[i + 1] \in WhiteSpace
    THEN removeLineBullets_firstOnly(s, skipSpace(s, i + 1))
    ELSE <<s[i]>> \o removeLineBullets_firstOnly(s, i + 1)

\* .replace(/^[-*]\s+/gm, '') from index i on: at the start of every line, a hyphen
\* or an asterisk and the white space after it (one character at least, line breaks
\* included).
RECURSIVE removeLineBullets(_, _)
removeLineBullets(s, i) ==
    IF i > Len(s) THEN <<>>
    ELSE IF /\ (i = 1 \/ s[i - 1] \in LineTerminators)
            /\ s[i] \in {"-", "*"}
            /\ i < Len(s)
            /\ s[i + 1] \in WhiteSpace
    THEN removeLineBullets(s, skipSpace(s, i + 1))
    ELSE <<s[i]>> \o removeLineBullets(s, i + 1)

-----------------------------------------------------------------------------
(* The trigger phrases of the if / else-if chain *)

foodsToEatFreely ==
    <<"f", "o", "o", "d", "s", " ", "t", "o", " ", "e", "a", "t", " ", "f", "r", "e",
      "e", "l", "y">>

greenFoodsPhrase ==
    <<"g", "r", "e", "e", "n", " ", "f", "o", "o", "d", "s">>

foodsInModeration ==
    <<"f", "o", "o", "d", "s", " ", "i", "n", " ", "m", "o", "d", "e", "r", "a", "t",
      "i", "o", "n">>

yellowFoodsPhrase ==
    <<"y", "e", "l", "l", "o", "w", " ", "f", "o", "o", "d", "s">>

foodsToAvoid ==
    <<"f", "o", "o", "d", "s", " ", "t", "o", " ", "a", "v", "o", "i", "d">>

redFoodsPhrase ==
    <<"r", "e", "d", " ", "f", "o", "o", "d", "s">>

mealTiming ==
    <<"m", "e", "a", "l", " ", "t", "i", "m", "i", "n", "g">>

specialInstructions ==
    <<"s", "p", "e", "c", "i", "a", "l", " ", "i", "n", "s", "t", "r", "u", "c", "t",
      "i", "o", "n", "s">>

specialDietary ==
    <<"s", "p", "e", "c", "i", "a", "l", " ", "d", "i", "e", "t", "a", "r", "y">>

-----------------------------------------------------------------------------
(* formatDietPlan *)

Pages == {"Dashboard", "Diet"}

\* The keys of the object literal formattedSections.
SectionKeys == {"goals", "greenFoods", "yellowFoods", "redFoods", "timing", "special"}

\* The object literal: every key with an empty array.
emptySections == [k \in SectionKeys |-> <<>>]

\* The chain with a key the object literal does not have.
headingOf_shortKey(section) ==
    LET lower == toLowerCase(section)
    IN  IF includes(lower, foodsToEatFreely) \/ includes(lower, greenFoodsPhrase)
        THEN "green"
        ELSE IF includes(lower, foodsInModeration) \/ includes(lower, yellowFoodsPhrase)
        THEN "yellowFoods"
        ELSE IF includes(lower, foodsToAvoid) \/ includes(lower, redFoodsPhrase)
        THEN "redFoods"
        ELSE IF includes(lower, mealTiming)
        THEN "timing"
        ELSE IF includes(lower, specialInstructions) \/ includes(lower, specialDietary)
        THEN "special"
        ELSE "none"

\* The chain with the yellow test ahead of the green test.
headingOf_yellowFirst(section) ==
    LET lower == toLowerCase(section)
    IN  IF includes(lower, foodsInModeration) \/ includes(lower, yellowFoodsPhrase)
        THEN "yellowFoods"
        ELSE IF includes(lower, foodsToEatFreely) \/ includes(lower, greenFoodsPhrase)
        THEN "greenFoods"
        ELSE IF includes(lower, foodsToAvoid) \/ includes(lower, redFoodsPhrase)
        THEN "redFoods"
        ELSE IF includes(lower, mealTiming)
        THEN "timing"
        ELSE IF includes(lower, specialInstructions) \/ includes(lower, specialDietary)
        THEN "special"
        ELSE "none"

\* The chain without its meal timing branch.
headingOf_noTiming(section) ==
    LET lower == toLowerCase(section)
    IN  IF includes(lower, foodsToEatFreely) \/ includes(lower, greenFoodsPhrase)
        THEN "greenFoods"
        ELSE IF includes(lower, foodsInModeration) \/ includes(lower, yellowFoodsPhrase)
        THEN "yellowFoods"
        ELSE IF includes(lower, foodsToAvoid) \/ includes(lower, redFoodsPhrase)
        THEN "redFoods"
        ELSE IF includes(lower, specialInstructions) \/ includes(lower, specialDietary)
        THEN "special"
        ELSE "none"

\* The chain applied to the paragraph without its emphasis markers and bullets.
headingOf_cleaned(section) ==
    LET lower == toLowerCase(trim(removeLineBullets(removeBold(section), 1)))
    IN  IF includes(lower, foodsToEatFreely) \/ includes(lower, greenFoodsPhrase)
        THEN "greenFoods"
        ELSE IF includes(lower, foodsInModeration) \/ includes(lower, yellowFoodsPhrase)
        THEN "yellowFoods"
        ELSE IF includes(lower, foodsToAvoid) \/ includes(lower, redFoodsPhrase)
        THEN "redFoods"
        ELSE IF includes(lower, mealTiming)
        THEN "timing"
        ELSE IF includes(lower, specialInstructions) \/ includes(lower, specialDietary)
        THEN "special"
        ELSE "none"

\* The if / else-if chain on section.toLowerCase().includes(...): the key the
\* section sets the cursor to, "none" when no phrase is included.
headingOf(section) ==
    LET lower == toLowerCase(section)
    IN  IF includes(lower, foodsToEatFreely) \/ includes(lower, greenFoodsPhrase)
        THEN "greenFoods"
        ELSE IF includes(lower, foodsInModeration) \/ includes(lower, yellowFoodsPhrase)
        THEN "yellowFoods"
        ELSE IF includes(lower, foodsToAvoid) \/ includes(lower, redFoodsPhrase)
        THEN "redFoods"
        ELSE IF includes(lower, mealTiming)
        THEN "timing"
        ELSE IF includes(lower, specialInstructions) \/ includes(lower, specialDietary)
        THEN "special"
        ELSE "none"

\* const cleanSection = section.replace(/\*\*/g, '').replace(/^[-*]\s+/gm, '').trim()
cleanSection(section) == trim(removeLineBullets(removeBold(section), 1))

\* item => item.length > 0
nonEmpty(item) == Len(item) > 0

\* The cleaned paragraph kept as one item, not split into lines.
itemsOf_noSplit(clean) == IF trim(clean) = <<>> THEN <<>> ELSE <<trim(clean)>>

\* The lines of the cleaned paragraph joined by a space into one item.
itemsOf_joined(clean) ==
    LET lines == split(clean, <<"\n">>)
        joined[n \in 0..Len(lines)] ==
            IF n = 0 THEN <<>>
            ELSE IF n = 1 THEN lines[1]
            ELSE joined[n - 1] \o <<" ">> \o lines[n]
    IN  SelectSeq(<<trim(joined[Len(lines)])>>, nonEmpty)

\* cleanSection.split('\n').map(item => item.trim()).filter(item => item.length > 0)
itemsOf(clean) ==
    LET lines == split(clean, <<"\n">>)
    IN  SelectSeq([i \in 1..Len(lines) |-> trim(lines[i])], nonEmpty)

\* The push reached by the heading paragraphs too.
pushes_headingToo(section) == cleanSection(section) # <<>>

\* Whether the forEach callback reaches formattedSections[currentSection].push.
pushes(section) == headingOf(section) = "none" /\ cleanSection(section) # <<>>

\* A push that goes to the special bucket whatever the cursor is.
push_toSpecial(fs, key, items) == [fs EXCEPT !["special"] = @ \o items]

\* unshift in place of push: the items go to the front of the array.
push_toFront(fs, key, items) == [fs EXCEPT ![key] = items \o @]

\* formattedSections[currentSection].push(...items): the array under a key the
\* object has grows at its end.
push(fs, key, items) == [fs EXCEPT ![key] = @ \o items]

\* The character class of the bullet strip of the item clean-up: [-*<U+2022>] in
\* the Dashboard copy; in the Diet page copy the file holds the three characters
\* U+00E2 U+20AC U+00A2 in place of U+2022.
bulletGlyphs(pg) ==
    IF pg = "Dashboard" THEN {"-", "*", "U+2022"}
    ELSE {"-", "*", "U+00E2", "U+20AC", "U+00A2"}

\* .replace(/^[-*<glyph>]\s*/, ''): one glyph at the start of the item and the
\* white space after it.
removeBullet(pg, item) ==
    IF item # <<>> /\ item[1] \in bulletGlyphs(pg)
    THEN From(item, skipSpace(item, 2))
    ELSE item

\* The first index from i on whose character is not a digit.
RECURSIVE skipDigits(_, _)
skipDigits(s, i) ==
    IF i <= Len(s) /\ s[i] \in Digits THEN skipDigits(s, i + 1) ELSE i

\* The number strip without its period: only the digits and the white space
\* right after them go.
removeNumber_digitsOnly(item) ==
    LET j == skipDigits(item, 1)
    IN  IF j > 1 THEN From(item, skipSpace(item, j)) ELSE item

\* .replace(/^\d+\.\s*/, ''): digits, a period and the white space after it at
\* the start of the item.
removeNumber(item) ==
    LET j == skipDigits(item, 1)
    IN  IF j > 1 /\ j <= Len(item) /\ item[j] = "."
        THEN From(item, skipSpace(item, j + 1))
        ELSE item

\* The map callback of the item clean-up.
cleanItem(pg, item) == trim(removeNumber(removeBold(removeBullet(pg, item))))

\* The clean-up without its filter.
cleanItems_noFilter(pg, items) == [i \in 1..Len(items) |-> cleanItem(pg, items[i])]

\* formattedSections[key].map(...).filter(item => item.length > 0)
cleanItems(pg, items) ==
    SelectSeq([i \in 1..Len(items) |-> cleanItem(pg, items[i])], nonEmpty)

-----------------------------------------------------------------------------
(* The arguments formatDietPlan is called with *)

TextGreenFoods ==
    <<"G", "r", "e", "e", "n", " ", "F", "o", "o", "d", "s">>

TextYellowFoods ==
    <<"y", "e", "l", "l", "o", "w", " ", "f", "o", "o", "d", "s">>

TextFoodsToAvoid ==
    <<"F", "o", "o", "d", "s", " ", "t", "o", " ", "A", "v", "o", "i", "d">>

TextMealTiming ==
    <<"M", "e", "a", "l", " ", "T", "i", "m", "i", "n", "g">>

TextSpecialDietary ==
    <<"s", "p", "e", "c", "i", "a", "l", " ", "d", "i", "e", "t", "a", "r", "y">>

ExampleCompact ==
    <<"E", "a", "t", " ", "m", "o", "r", "e", " ", "f", "i", "b", "e", "r", " ", "a",
      "n", "d", " ", "s", "t", "a", "y", " ", "h", "y", "d", "r", "a", "t", "e", "d",
      ".", "\n", "\n", "G", "r", "e", "e", "n", " ", "F", "o", "o", "d", "s", ":",
      "\n", "-", " ", "A", "p", "p", "l", "e", "s", "\n", "-", " ", "L", "e", "a", "f",
      "y", " ", "g", "r", "e", "e", "n", "s", "\n", "\n", "F", "o", "o", "d", "s", " ",
      "t", "o", " ", "A", "v", "o", "i", "d", ":", "\n", "-", " ", "F", "r", "i", "e",
      "d", " ", "f", "o", "o", "d">>

ExampleSpaced ==
    <<"E", "a", "t", " ", "m", "o", "r", "e", " ", "f", "i", "b", "e", "r", " ", "a",
      "n", "d", " ", "s", "t", "a", "y", " ", "h", "y", "d", "r", "a", "t", "e", "d",
      ".", "\n", "\n", "G", "r", "e", "e", "n", " ", "F", "o", "o", "d", "s", ":",
      "\n", "\n", "-", " ", "A", "p", "p", "l", "e", "s", "\n", "-", " ", "L", "e",
      "a", "f", "y", " ", "g", "r", "e", "e", "n", "s", "\n", "\n", "F", "o", "o", "d",
      "s", " ", "t", "o", " ", "A", "v", "o", "i", "d", ":", "\n", "\n", "-", " ", "F",
      "r", "i", "e", "d", " ", "f", "o", "o", "d">>

TextEatMoreFiber ==
    <<"E", "a", "t", " ", "m", "o", "r", "e", " ", "f", "i", "b", "e", "r", " ", "a",
      "n", "d", " ", "s", "t", "a", "y", " ", "h", "y", "d", "r", "a", "t", "e", "d",
      ".">>

TextApples ==
    <<"A", "p", "p", "l", "e", "s">>

TextLeafyGreens ==
    <<"L", "e", "a", "f", "y", " ", "g", "r", "e", "e", "n", "s">>

TextFriedFood ==
    <<"F", "r", "i", "e", "d", " ", "f", "o", "o", "d">>

ItemBoldApples ==
    <<"*", "*", "A", "p", "p", "l", "e", "s", "*", "*", " ", "(", "1", " ", "s", "e",
      "r", "v", "i", "n", "g", ")">>

TextApplesServing ==
    <<"A", "p", "p", "l", "e", "s", " ", "(", "1", " ", "s", "e", "r", "v", "i", "n",
      "g", ")">>

TextStarApplesServing ==
    <<"*", "A", "p", "p", "l", "e", "s", " ", "(", "1", " ", "s", "e", "r", "v", "i",
      "n", "g", ")">>

ItemDrinkWater ==
    <<"1", ".", " ", "D", "r", "i", "n", "k", " ", "w", "a", "t", "e", "r">>

TextDrinkWater ==
    <<"D", "r", "i", "n", "k", " ", "w", "a", "t", "e", "r">>

\* Two goals, then a green list whose bullet lines repeat a text, a numbered
\* line, and a paragraph under no heading of its own.
ExampleRepeats ==
    <<"b", "\n", "a", "\n", "\n", "G", "r", "e", "e", "n", " ", "F", "o", "o", "d", "s",
      "\n", "\n", "-", " ", "a", "\n", "*", " ", "a", "\n", "1", ".", " ", "b", "\n",
      "\n", "a">>

\* A heading in capitals, a heading phrase broken by emphasis markers, a bullet.
ExampleInterrupted ==
    <<"F", "o", "o", "d", "s", " ", "I", "n", " ", "M", "O", "D", "E", "R", "A", "T",
      "I", "O", "N", "\n", "\n", "*", "*", "G", "r", "e", "e", "n", "*", "*", " ", "F",
      "o", "o", "d", "s", "\n", "\n", "-", " ", "a">>

\* The four phrases that are in no piece, each in a paragraph of its own with a
\* line of content after it.
ExampleOtherPhrases ==
    <<"F", "o", "o", "d", "s", " ", "t", "o", " ", "E", "a", "t", " ", "F", "r", "e",
      "e", "l", "y", "\n", "\n", "a", "\n", "\n", "F", "O", "O", "D", "S", " ", "I",
      "N", " ", "M", "O", "D", "E", "R", "A", "T", "I", "O", "N", ":", "\n", "\n", "b",
      "\n", "\n", "t", "h", "e", " ", "r", "e", "d", " ", "f", "o", "o", "d", "s", " ",
      "l", "i", "s", "t", "\n", "\n", "a", "\n", "\n", "S", "p", "e", "c", "i", "a",
      "l", " ", "I", "n", "s", "t", "r", "u", "c", "t", "i", "o", "n", "s", "\n", "\n",
      "b">>

\* A line with four emphasis markers.
ItemBoldTip ==
    <<"*", "*", "T", "i", "p", ":", "*", "*", " ", "e", "a", "t", " ", "*", "*", "m",
      "o", "r", "e", "*", "*", " ", "g", "r", "e", "e", "n", "s">>

TextTip ==
    <<"T", "i", "p", ":", " ", "e", "a", "t", " ", "m", "o", "r", "e", " ", "g", "r",
      "e", "e", "n", "s">>

\* A line that begins with a decimal quantity.
ItemDecimalMilk ==
    <<"1", ".", "5", " ", "c", "u", "p", "s", " ", "o", "f", " ", "m", "i", "l", "k">>

\* A paragraph of bullet lines with the glyph of the diet-plan prompt.
ExampleDotBullets ==
    <<"U+2022", " ", "A", "p", "p", "l", "e", "s", "\n", "U+2022", " ", "L", "e", "a",
      "f", "y", " ", "g", "r", "e", "e", "n", "s">>

TextFoodsInMODERATION ==
    <<"F", "o", "o", "d", "s", " ", "I", "n", " ", "M", "O", "D", "E", "R", "A", "T",
      "I", "O", "N">>

\* The pieces an argument is put together from.
Pieces ==
    { <<"a">>, <<"b">>, <<" ">>, <<"\n">>, <<"\n", "\n">>, <<"-", " ">>, <<"*">>,
      <<"*", "*">>, <<"1", ".">>, <<"U+2022">>,
      TextGreenFoods, TextYellowFoods, TextFoodsToAvoid, TextMealTiming,
      TextSpecialDietary }

\* The arguments that are given whole.
Examples ==
    {ExampleCompact, ExampleSpaced, ExampleRepeats, ItemDrinkWater, ItemBoldApples,
     ExampleInterrupted, ExampleOtherPhrases, ItemBoldTip, ItemDecimalMilk,
     ExampleDotBullets}

-----------------------------------------------------------------------------
(* The calls *)

Init ==
    /\ page \in Pages
    /\ dietPlan \in {<<>>} \cup Examples
    /\ nPieces = IF dietPlan = <<>> THEN 0 ELSE MaxPieces
    /\ pc = "call"
    /\ sections = <<>>
    /\ idx = 0
    /\ currentSection = "undefined"
    /\ formattedSections = "undefined"
    /\ unmounted

\* The caller's text grows by one piece.
AppendPiece(p) ==
    /\ pc = "call"
    /\ nPieces < MaxPieces
    /\ dietPlan' = dietPlan \o p
    /\ nPieces' = nPieces + 1
    /\ UNCHANGED <<page, pc, sections, idx, currentSection, formattedSections, component,
                   otherPages>>

\* formatDietPlan with its result object kept from one call to the next.
Call_reusesObject ==
    /\ pc = "call"
    /\ sections' = split(dietPlan, <<"\n", "\n">>)
    /\ formattedSections' =
           IF idx = 0 THEN emptySections ELSE formattedSections
    /\ currentSection' = "goals"
    /\ idx' = 1
    /\ pc' = "forEach"
    /\ UNCHANGED <<page, dietPlan, nPieces, component, otherPages>>

\* formatDietPlan with a cursor that starts at greenFoods.
Call_startsGreen ==
    /\ pc = "call"
    /\ sections' = split(dietPlan, <<"\n", "\n">>)
    /\ formattedSections' = emptySections
    /\ currentSection' = "greenFoods"
    /\ idx' = 1
    /\ pc' = "forEach"
    /\ UNCHANGED <<page, dietPlan, nPieces, component, otherPages>>

\* formatDietPlan(dietPlan) up to sections.forEach.
Call ==
    /\ pc = "call"
    /\ sections' = split(dietPlan, <<"\n", "\n">>)
    /\ formattedSections' = emptySections
    /\ currentSection' = "goals"
    /\ idx' = 1
    /\ pc' = "forEach"
    /\ UNCHANGED <<page, dietPlan, nPieces, component, otherPages>>

\* The forEach callback with a cursor that falls back to goals after content.
ProcessSection_resetsCursor ==
    /\ pc = "forEach"
    /\ idx <= Len(sections)
    /\ LET section == sections[idx]
           heading == headingOf(section)
           raises  == pushes(section) /\ currentSection \notin DOMAIN formattedSections
       IN  /\ currentSection' = IF heading # "none" THEN heading ELSE "goals"
           /\ formattedSections' =
                  IF pushes(section) /\ ~raises
                  THEN push(formattedSections, currentSection, itemsOf(cleanSection(section)))
                  ELSE formattedSections
           /\ pc' = IF raises THEN "raised"
                    ELSE IF idx = Len(sections) THEN "cleanup"
                    ELSE "forEach"
    /\ idx' = idx + 1
    /\ UNCHANGED <<page, dietPlan, nPieces, sections, component, otherPages>>

\* One call of the forEach callback, on sections[idx].
ProcessSection ==
    /\ pc = "forEach"
    /\ idx <= Len(sections)
    /\ LET section == sections[idx]
           heading == headingOf(section)
           raises  == pushes(section) /\ currentSection \notin DOMAIN formattedSections
       IN  /\ currentSection' = IF heading # "none" THEN heading ELSE currentSection
           /\ formattedSections' =
                  IF pushes(section) /\ ~raises
                  THEN push(formattedSections, currentSection, itemsOf(cleanSection(section)))
                  ELSE formattedSections
           /\ pc' = IF raises THEN "raised"
                    ELSE IF idx = Len(sections) THEN "cleanup"
                    ELSE "forEach"
    /\ idx' = idx + 1
    /\ UNCHANGED <<page, dietPlan, nPieces, sections, component, otherPages>>

\* Object.keys(formattedSections).forEach(...) and the return.
CleanUp ==
    /\ pc = "cleanup"
    /\ formattedSections' =
           [k \in DOMAIN formattedSections |-> cleanItems(page, formattedSections[k])]
    /\ pc' = "done"
    /\ UNCHANGED <<page, dietPlan, nPieces, sections, idx, currentSection, component,
                   otherPages>>

Next ==
    \/ \E p \in Pieces : AppendPiece(p)
    \/ Call
    \/ ProcessSection
    \/ CleanUp

Spec == Init /\ [][Next]_vars

-----------------------------------------------------------------------------
(* The phrase table the claims speak of *)

\* The sections a heading can name, in the order the claims give.
PriorityOrder == <<"greenFoods", "yellowFoods", "redFoods", "timing", "special">>

TriggersOf(key) ==
    CASE key = "greenFoods"  -> {foodsToEatFreely, greenFoodsPhrase}
      [] key = "yellowFoods" -> {foodsInModeration, yellowFoodsPhrase}
      [] key = "redFoods"    -> {foodsToAvoid, redFoodsPhrase}
      [] key = "timing"      -> {mealTiming}
      [] key = "special"     -> {specialInstructions, specialDietary}
      [] OTHER               -> {}

\* The places of PriorityOrder whose section has a trigger phrase in the paragraph.
Matching(section) ==
    {n \in 1..Len(PriorityOrder) :
        \E phrase \in TriggersOf(PriorityOrder[n]) : includes(toLowerCase(section), phrase)}

ContainsTrigger(section) == Matching(section) # {}

Least(S) == CHOOSE n \in S : \A m \in S : n <= m

\* The paragraph the forEach callback ran on last.
Processed == pc \in {"forEach", "cleanup"} /\ idx > 1

IsPrefix(s, t) == Len(s) <= Len(t) /\ SubSeq(t, 1, Len(s)) = s

-----------------------------------------------------------------------------
(* C1 *)

\* C1: formatDietPlan never raises, and from the object literal on its result
\* holds exactly the six keys goals, greenFoods, yellowFoods, redFoods, timing and
\* special, each with a sequence of strings, whatever paragraphs were processed.
C1_SixKeysNeverRaises ==
    /\ pc # "raised"
    /\ pc \in {"forEach", "cleanup", "done"} =>
          /\ DOMAIN formattedSections = SectionKeys
          /\ \A k \in SectionKeys : formattedSections[k] \in Seq(Seq(STRING))

\* A finished call that put items in two buckets.
C1_Witness ==
    /\ pc = "done"
    /\ formattedSections["goals"] # <<>>
    /\ formattedSections["greenFoods"] # <<>>

-----------------------------------------------------------------------------
(* C2 *)

ExpectedOfExample ==
    [emptySections EXCEPT !["goals"] = <<TextEatMoreFiber>>,
                          !["greenFoods"] = <<TextApples, TextLeafyGreens>>,
                          !["redFoods"] = <<TextFriedFood>>]

\* C2 as stated: the example whose heading lines are followed by their bullets
\* after a single line break gives goals, greenFoods and redFoods their items.
C2_ExampleAsStated ==
    (pc = "done" /\ dietPlan = ExampleCompact) => formattedSections = ExpectedOfExample

\* C2, amended: on that example each heading paragraph is consumed with its
\* bullets, so only goals gets its item; the buckets of the claim are what the
\* example gives when a blank line follows each heading line.
C2_ExampleAmended ==
    /\ (pc = "done" /\ dietPlan = ExampleCompact) =>
           formattedSections = [emptySections EXCEPT !["goals"] = <<TextEatMoreFiber>>]
    /\ (pc = "done" /\ dietPlan = ExampleSpaced) => formattedSections = ExpectedOfExample

C2_Witness ==
    /\ pc = "done"
    /\ dietPlan = ExampleCompact
    /\ formattedSections["goals"] = <<TextEatMoreFiber>>
    /\ currentSection = "redFoods"

-----------------------------------------------------------------------------
(* C3 *)

\* C3: a paragraph that contains a trigger phrase adds no item to any bucket,
\* also when it holds bullet lines; it sets the cursor and nothing else.
C3_HeadingConsumed ==
    [][(pc = "forEach" /\ ContainsTrigger(sections[idx])) =>
          /\ formattedSections' = formattedSections
          /\ currentSection' \in SectionKeys \ {"goals"}
          /\ sections' = sections]_vars

\* A heading paragraph with a bullet line of its own has been processed.
C3_Witness ==
    /\ Processed
    /\ ContainsTrigger(sections[idx - 1])
    /\ includes(sections[idx - 1], <<"\n", "-", " ", "A">>)
    /\ formattedSections["greenFoods"] = <<>>

-----------------------------------------------------------------------------
(* C4 *)

\* C4: a paragraph with trigger phrases of several sections sets the cursor to
\* the first of them in the order greenFoods, yellowFoods, redFoods, timing,
\* special, wherever the phrases stand in the paragraph.
C4_PriorityOrder ==
    [][(pc = "forEach" /\ ContainsTrigger(sections[idx])) =>
          currentSection' = PriorityOrder[Least(Matching(sections[idx]))]]_vars

\* A paragraph with "yellow foods" before "green foods" set the cursor to greenFoods.
C4_Witness ==
    /\ Processed
    /\ sections[idx - 1] = TextYellowFoods \o TextGreenFoods
    /\ currentSection = "greenFoods"

-----------------------------------------------------------------------------
(* C5 *)

OnlyWhiteSpace(s) == \A i \in 1..Len(s) : s[i] \in WhiteSpace

\* C5: the empty string, a text of white space and blank lines only, and a text
\* whose every paragraph contains a trigger phrase all give six empty buckets.
C5_NothingToSegment ==
    (/\ pc = "done"
     /\ \/ dietPlan = <<>>
        \/ OnlyWhiteSpace(dietPlan)
        \/ \A i \in 1..Len(sections) : ContainsTrigger(sections[i]))
    => formattedSections = emptySections

\* A finished call on two heading paragraphs, one of them with a line of text.
C5_Witness ==
    /\ pc = "done"
    /\ Len(sections) = 2
    /\ \A i \in 1..Len(sections) : ContainsTrigger(sections[i])
    /\ \E i \in 1..Len(sections) : Len(itemsOf(cleanSection(sections[i]))) > 0
    /\ formattedSections = emptySections

-----------------------------------------------------------------------------
(* The item clean-up on its own: formatDietPlan from its second loop on, run on *)
(* one item of any text without a line break.                                  *)

ItemPieces ==
    { <<"a">>, <<"b">>, <<" ">>, <<"-">>, <<"*">>, <<"*", "*">>, <<"1">>, <<".">>,
      <<"U+2022">>, <<"U+00E2">> }

ItemExamples == {ItemBoldApples, ItemDrinkWater}

InitItem ==
    /\ page \in Pages
    /\ dietPlan = <<>>
    /\ sections = <<>>
    /\ idx = 0
    /\ currentSection = "goals"
    /\ pc = "cleanup"
    /\ \E item \in ItemPieces \cup ItemExamples :
          /\ formattedSections = [emptySections EXCEPT !["goals"] = <<item>>]
          /\ nPieces = IF item \in ItemPieces THEN 1 ELSE MaxPieces
    /\ unmounted

\* The item grows by one piece.
AppendItemPiece(p) ==
    /\ pc = "cleanup"
    /\ nPieces < MaxPieces
    /\ formattedSections' = [formattedSections EXCEPT !["goals"][1] = @ \o p]
    /\ nPieces' = nPieces + 1
    /\ UNCHANGED <<page, dietPlan, pc, sections, idx, currentSection, component, otherPages>>

NextItem ==
    \/ \E p \in ItemPieces : AppendItemPiece(p)
    \/ CleanUp

SpecItem == InitItem /\ [][NextItem]_vars

-----------------------------------------------------------------------------
(* C6 *)

\* C6 as stated: the item clean-up run on its own output returns that output, so
\* cleaning the buckets of a finished call once more changes nothing.
C6_CleanUpIdempotent ==
    pc = "done" =>
        \A k \in SectionKeys : cleanItems(page, formattedSections[k]) = formattedSections[k]

-----------------------------------------------------------------------------
(* C7 *)

\* A text the other steps of the item clean-up have nothing to strip from: not
\* empty, no white space at either end, no bullet glyph and no number at its start.
Plain(pg, text) ==
    /\ text # <<>>
    /\ text[1] \notin WhiteSpace \cup bulletGlyphs(pg) \cup Digits
    /\ text[Len(text)] \notin WhiteSpace

\* The text with every pair of asterisks left out, read off the text itself:
\* the characters that are in no pair, pairs counted from the left in each run.
RECURSIVE RunStart(_, _)
RunStart(s, i) == IF i > 1 /\ s[i - 1] = "*" THEN RunStart(s, i - 1) ELSE i

RECURSIVE RunEnd(_, _)
RunEnd(s, i) == IF i < Len(s) /\ s[i + 1] = "*" THEN RunEnd(s, i + 1) ELSE i

InPair(s, i) ==
    /\ s[i] = "*"
    /\ \/ i < RunEnd(s, i)
       \/ (i - RunStart(s, i)) % 2 = 1

RECURSIVE WithoutMarkers(_, _)
WithoutMarkers(s, i) ==
    IF i > Len(s) THEN <<>>
    ELSE (IF InPair(s, i) THEN <<>> ELSE <<s[i]>>) \o WithoutMarkers(s, i + 1)

-----------------------------------------------------------------------------
(* C8 *)

\* The item begins with digits, a period and white space.
Numbered(item) ==
    LET j == skipDigits(item, 1)
    IN  j > 1 /\ j < Len(item) /\ item[j] = "." /\ item[j + 1] \in WhiteSpace

\* What follows the digits, the period and the white space.
AfterNumber(item) == From(item, skipSpace(item, skipDigits(item, 1) + 1))

\* How many of the first i items the clean-up keeps.
KeptUpTo(pg, items, i) ==
    Cardinality({j \in 1..i : cleanItem(pg, items[j]) # <<>>})

\* C8: in the clean-up of a call, an item that begins with digits, a period and
\* white space becomes the text after that prefix; the text "1. Drink water"
\* gives the item "Drink water".
C8_NumberPrefixRemoved ==
    [][(pc = "cleanup" /\ pc' = "done") =>
          /\ \A k \in SectionKeys : \A i \in 1..Len(formattedSections[k]) :
                Numbered(formattedSections[k][i]) =>
                    /\ KeptUpTo(page, formattedSections[k], i) \in 1..Len(formattedSections'[k])
                    /\ formattedSections'[k][KeptUpTo(page, formattedSections[k], i)]
                           = AfterNumber(formattedSections[k][i])
          /\ dietPlan = ItemDrinkWater => formattedSections'["goals"] = <<TextDrinkWater>>]_vars

\* A finished call with a numbered line after two bullet lines: its text is
\* the third item of the bucket.
C8_Witness ==
    /\ pc = "done"
    /\ \E i \in 1..Len(sections) :
          LET lines == itemsOf(cleanSection(sections[i]))
          IN  /\ Len(lines) = 3
              /\ Numbered(lines[3])
              /\ formattedSections["greenFoods"][3] = AfterNumber(lines[3])

-----------------------------------------------------------------------------
(* C9 *)

\* C9: every item of every bucket of the result is non-empty and has no white
\* space at either end; a line that the clean-up empties gives no item.
C9_ItemsTrimmedNonEmpty ==
    pc = "done" =>
        \A k \in SectionKeys : \A i \in 1..Len(formattedSections[k]) :
            LET item == formattedSections[k][i]
            IN  /\ item # <<>>
                /\ item[1] \notin WhiteSpace
                /\ item[Len(item)] \notin WhiteSpace

\* A finished call on a line of text and a line that is a lone asterisk.
C9_Witness ==
    /\ pc = "done"
    /\ dietPlan = <<"a", "\n", "*">>
    /\ formattedSections = [emptySections EXCEPT !["goals"] = <<<<"a">>>>]

-----------------------------------------------------------------------------
(* C10 *)

\* The lines of a paragraph that are not blank, in order, each without the white
\* space at its ends.
RECURSIVE LinesFrom(_, _, _)
LinesFrom(s, i, line) ==
    IF i > Len(s) THEN (IF trim(line) = <<>> THEN <<>> ELSE <<trim(line)>>)
    ELSE IF s[i] = "\n"
         THEN (IF trim(line) = <<>> THEN <<>> ELSE <<trim(line)>>) \o LinesFrom(s, i + 1, <<>>)
         ELSE LinesFrom(s, i + 1, Append(line, s[i]))

\* C10: a paragraph's items go to the end of its bucket in the order of its
\* lines, the items already there stay in place, and the clean-up keeps the
\* order and every copy of a repeated text.
C10_OrderKeptNoDedup ==
    [][/\ pc = "forEach" =>
            \A k \in SectionKeys :
                /\ IsPrefix(formattedSections[k], formattedSections'[k])
                /\ formattedSections'[k] # formattedSections[k] =>
                      /\ k = currentSection
                      /\ formattedSections'[k] =
                             formattedSections[k] \o LinesFrom(cleanSection(sections[idx]), 1, <<>>)
       /\ (pc = "cleanup" /\ pc' = "done") =>
            \A k \in SectionKeys :
                /\ Len(formattedSections'[k]) =
                       KeptUpTo(page, formattedSections[k], Len(formattedSections[k]))
                /\ \A i \in 1..Len(formattedSections[k]) :
                       cleanItem(page, formattedSections[k][i]) # <<>> =>
                           formattedSections'[k][KeptUpTo(page, formattedSections[k], i)]
                               = cleanItem(page, formattedSections[k][i])]_vars

\* A finished call that kept the order of two goals and both copies of the
\* text that two different bullet lines clean to.
C10_Witness ==
    /\ pc = "done"
    /\ dietPlan = ExampleRepeats
    /\ formattedSections["goals"] = <<<<"b">>, <<"a">>>>
    /\ formattedSections["greenFoods"] = <<<<"a">>, <<"a">>, <<"b">>, <<"a">>>>

-----------------------------------------------------------------------------
(* C11 *)

\* C11: the cursor is goals when the forEach begins, and as long as no paragraph
\* up to the one at hand has a heading phrase, the cursor stays goals, the
\* paragraph's items are appended to goals, and every other bucket is empty.
C11_DefaultBucket ==
    [][/\ (pc = "call" /\ pc' = "forEach") => currentSection' = "goals"
       /\ (pc = "forEach" /\ \A i \in 1..idx : ~ContainsTrigger(sections[i])) =>
            /\ currentSection = "goals"
            /\ currentSection' = "goals"
            /\ formattedSections'["goals"] =
                   formattedSections["goals"] \o LinesFrom(cleanSection(sections[idx]), 1, <<>>)
            /\ \A k \in SectionKeys \ {"goals"} : formattedSections'[k] = <<>>]_vars

\* Two paragraphs without a heading phrase have been processed, each gave goals
\* one item, and the other buckets are empty.
C11_Witness ==
    /\ Processed
    /\ idx = 3
    /\ \A i \in 1..2 : ~ContainsTrigger(sections[i]) /\ pushes(sections[i])
    /\ Len(formattedSections["goals"]) = 2
    /\ \A k \in SectionKeys \ {"goals"} : formattedSections[k] = <<>>

-----------------------------------------------------------------------------
(* C12 *)

\* The cursor after the first n paragraphs: the key of the last of them that has
\* a heading phrase, goals when none has.
RECURSIVE CursorAfter(_)
CursorAfter(n) ==
    IF n = 0 THEN "goals"
    ELSE IF ContainsTrigger(sections[n])
         THEN PriorityOrder[Least(Matching(sections[n]))]
         ELSE CursorAfter(n - 1)

\* C12: a paragraph without a heading phrase leaves the cursor as it is and
\* appends its items to the cursor's bucket and to no other; a paragraph with one
\* moves the cursor and appends nothing; so the cursor is always the key of the
\* last heading paragraph processed, until the next heading paragraph.
C12_CursorPersists ==
    [][pc = "forEach" =>
          /\ ~ContainsTrigger(sections[idx]) =>
                /\ currentSection' = currentSection
                /\ formattedSections'[currentSection] =
                       formattedSections[currentSection]
                           \o LinesFrom(cleanSection(sections[idx]), 1, <<>>)
                /\ \A k \in SectionKeys \ {currentSection} :
                       formattedSections'[k] = formattedSections[k]
          /\ ContainsTrigger(sections[idx]) => formattedSections' = formattedSections
          /\ currentSection = CursorAfter(idx - 1)
          /\ currentSection' = CursorAfter(idx)]_vars

\* The forEach is over: a heading paragraph set the cursor to greenFoods and the
\* two paragraphs after it gave their four items to greenFoods, the cursor still
\* there.
C12_Witness ==
    /\ pc = "cleanup"
    /\ Len(sections) = 4
    /\ ContainsTrigger(sections[2])
    /\ ~ContainsTrigger(sections[3]) /\ ~ContainsTrigger(sections[4])
    /\ currentSection = "greenFoods"
    /\ Len(formattedSections["greenFoods"]) = 4
    /\ Len(formattedSections["goals"]) = 2

-----------------------------------------------------------------------------
(* C13 *)

\* The nine trigger phrases.
Phrases == UNION {TriggersOf(PriorityOrder[n]) : n \in 1..Len(PriorityOrder)}

\* C13: the forEach callback takes its heading branch (moves the cursor to the
\* phrase's key, appends nothing) exactly when the paragraph as given, put in
\* lower case, includes one of the nine phrases; a paragraph that includes a
\* phrase only once its markers are removed is content, appended to the cursor's
\* bucket with the cursor left alone.
C13_HeadingOnOriginalText ==
    [][pc = "forEach" =>
          LET section == sections[idx]
              inOriginal ==
                  \E phrase \in Phrases : includes(toLowerCase(section), phrase)
              inCleaned ==
                  \E phrase \in Phrases : includes(toLowerCase(cleanSection(section)), phrase)
          IN  /\ inOriginal =>
                    /\ formattedSections' = formattedSections
                    /\ \E phrase \in TriggersOf(currentSection') :
                           includes(toLowerCase(section), phrase)
              /\ (~inOriginal /\ cleanSection(section) # <<>>) =>
                    /\ currentSection' = currentSection
                    /\ Len(formattedSections'[currentSection]) >
                           Len(formattedSections[currentSection])
              /\ (~inOriginal /\ inCleaned) =>
                    formattedSections'[currentSection] =
                        formattedSections[currentSection]
                            \o LinesFrom(cleanSection(section), 1, <<>>)]_vars

\* A heading written in capitals moved the cursor to yellowFoods, and the
\* paragraph "**Green** Foods" after it, whose phrase the markers interrupt, is an
\* item of yellowFoods and no heading.
C13_Witness ==
    /\ pc = "done"
    /\ sections = <<TextFoodsInMODERATION, <<"*", "*">> \o SubSeq(TextGreenFoods, 1, 5)
                        \o <<"*", "*">> \o SubSeq(TextGreenFoods, 6, 11), <<"-", " ", "a">>>>
    /\ currentSection = "yellowFoods"
    /\ formattedSections["yellowFoods"] = <<TextGreenFoods, <<"a">>>>
    /\ formattedSections["greenFoods"] = <<>>

-----------------------------------------------------------------------------
(* C17 *)

\* The bullet glyphs the claims name: hyphen, asterisk and the bullet character.
NamedGlyphs == {"-", "*", "U+2022"}

\* The text after the glyph and the white space of a line.
TextAfterGlyph(line) == From(line, skipSpace(line, 2))

\* A content line: a named glyph, white space, then a text that begins with no
\* glyph and no digit, has no asterisk, no line break and no white space at its
\* end, and no heading phrase.
GlyphLine(line) ==
    /\ Len(line) >= 3
    /\ line[1] \in NamedGlyphs
    /\ line[2] \in WhiteSpace
    /\ TextAfterGlyph(line) # <<>>
    /\ TextAfterGlyph(line)[1] \notin NamedGlyphs \cup Digits
    /\ TextAfterGlyph(line) = trim(TextAfterGlyph(line))
    /\ \A i \in 1..Len(line) : line[i] \notin LineTerminators
    /\ \A i \in 2..Len(line) : line[i] # "*"
    /\ ~ContainsTrigger(line)

\* C17: on both pages, a plan that is one content line made of a bullet glyph,
\* white space and a text T gives the one item T, in goals.
C17_GlyphLineGivesText ==
    (pc = "done" /\ GlyphLine(dietPlan)) =>
        formattedSections = [emptySections EXCEPT !["goals"] = <<TextAfterGlyph(dietPlan)>>]

-----------------------------------------------------------------------------
(* C18 *)

\* A line without the hyphen or asterisk at its start and the white space after
\* it; the line break that ends a line which is not the last counts as white
\* space after a marker that stands alone.
stripLineBullet(line, isLast) ==
    IF /\ line # <<>>
       /\ line[1] \in {"-", "*"}
       /\ IF Len(line) >= 2 THEN line[2] \in WhiteSpace ELSE ~isLast
    THEN From(line, skipSpace(line, 2))
    ELSE line

\* What a paragraph gives line by line: each line of the paragraph as given,
\* without emphasis markers, without its own bullet, trimmed, the empty ones left
\* out.
ItemsLineByLine(section) ==
    LET lines == split(section, <<"\n">>)
        item(i) == trim(stripLineBullet(removeBold(lines[i]), i = Len(lines)))
    IN  SelectSeq([i \in 1..Len(lines) |-> item(i)], nonEmpty)

\* C18: what a content paragraph appends to the cursor's bucket is what its
\* lines give one by one: every line that begins with a hyphen or an asterisk and
\* white space gives its item without that marker, whichever line of the
\* paragraph it is, no two lines are merged into one item, and no line with text
\* is lost.
C18_EveryLineStripped ==
    [][(pc = "forEach" /\ ~ContainsTrigger(sections[idx])) =>
          formattedSections'[currentSection] =
              formattedSections[currentSection] \o ItemsLineByLine(sections[idx])]_vars

\* The callback has run on a paragraph of three lines, a hyphen line, an
\* asterisk line and a numbered line: three items, the bullet lines without
\* their markers.
C18_Witness ==
    /\ pc = "forEach"
    /\ idx = 4
    /\ sections[3] = <<"-", " ", "a", "\n", "*", " ", "a", "\n", "1", ".", " ", "b">>
    /\ formattedSections["greenFoods"] = <<<<"a">>, <<"a">>, <<"1", ".", " ", "b">>>>

-----------------------------------------------------------------------------
(* C19 *)

\* An item that begins with digits and a period with no white space after it,
\* as a decimal quantity does.
DecimalStart(item) ==
    /\ item # <<>>
    /\ item[1] \in Digits
    /\ skipDigits(item, 1) < Len(item)
    /\ item[skipDigits(item, 1)] = "."
    /\ item[skipDigits(item, 1) + 1] \notin WhiteSpace

\* C19: the clean-up keeps an item that begins with digits, a period and a
\* character that is not white space as it is, leading characters included:
\* "1.5 cups of milk" stays "1.5 cups of milk".
C19_DecimalKept ==
    [][(pc = "cleanup" /\ pc' = "done") =>
          \A k \in SectionKeys :
              \A i \in 1..Len(formattedSections[k]) :
                  DecimalStart(formattedSections[k][i]) =>
                      \E j \in 1..Len(formattedSections'[k]) :
                          formattedSections'[k][j] = formattedSections[k][i]]_vars

-----------------------------------------------------------------------------
(* C20 *)

\* C20: no item of a result has two asterisks side by side, whatever runs of
\* asterisks the plan has and wherever they stand.
C20_NoMarkerLeft ==
    pc = "done" =>
        \A k \in SectionKeys :
            \A i \in 1..Len(formattedSections[k]) :
                ~includes(formattedSections[k][i], <<"*", "*">>)

\* A finished call on a line with four emphasis markers: the item is the line
\* without them.
C20_Witness ==
    /\ pc = "done"
    /\ dietPlan = ItemBoldTip
    /\ formattedSections["goals"] = <<TextTip>>

-----------------------------------------------------------------------------
(* The Dashboard's list of reports: one call of formatDietPlan per report *)

\* At most MaxReports reports are shown.
MaxReports == 2

\* report.dietPlan && ...: the field is there and is not the empty string.
hasDietPlan(report) == "dietPlan" \in DOMAIN report /\ report.dietPlan # <<>>

\* A stored report without its optional fields.
reportOf(uid, fileName, date, summary) ==
    [userId |-> uid, fileName |-> fileName, date |-> date, summary |-> summary]

\* The report with one more field.
withField(report, field, value) == (field :> value) @@ report

\* The diet plans of the reports shown.
ShownPlans == {<<>>, ExampleSpaced, ExampleRepeats, ExampleInterrupted, ItemDrinkWater}

\* The reports shown: without a diet plan, or with one of ShownPlans.
ShownReports ==
    {reportOf("u1", "report.pdf", 1, "s1")}
        \cup {withField(reportOf("u1", "report.pdf", 1, "s1"), "dietPlan", plan) :
                  plan \in ShownPlans}

InitRender ==
    /\ page = "Dashboard"
    /\ dietPlan = <<>>
    /\ nPieces = MaxPieces
    /\ pc = "render"
    /\ sections = <<>>
    /\ idx = 0
    /\ currentSection = "undefined"
    /\ formattedSections = "undefined"
    /\ reports \in UNION {[1..n -> ShownReports] : n \in 1..MaxReports}
    /\ rendering = 0
    /\ diets = <<>>
    /\ currentUser = "u1"
    /\ selectedFile = "null"
    /\ loading = FALSE
    /\ error = ""
    /\ store = <<>>
    /\ load = <<>>
    /\ uploads = <<>>
    /\ noOtherPage

\* The callback of reports.map on the next report, up to the call of
\* formatDietPlan that report.dietPlan && ... guards.
renderReport ==
    /\ pc = "render"
    /\ rendering < Len(reports)
    /\ rendering' = rendering + 1
    /\ IF hasDietPlan(reports[rendering + 1])
       THEN /\ dietPlan' = reports[rendering + 1].dietPlan
            /\ pc' = "call"
            /\ diets' = diets
       ELSE /\ dietPlan' = dietPlan
            /\ pc' = "render"
            /\ diets' = Append(diets, "none")
    /\ UNCHANGED <<page, nPieces, sections, idx, currentSection, formattedSections>>
    /\ UNCHANGED <<otherPages, reports, currentUser, selectedFile, loading, error, store,
                   load, uploads>>

\* return formattedSections, and const diet = formatDietPlan(report.dietPlan).
returnDiet ==
    /\ pc = "done"
    /\ rendering > 0
    /\ diets' = Append(diets, formattedSections)
    /\ pc' = "render"
    /\ UNCHANGED <<page, dietPlan, nPieces, sections, idx, currentSection, formattedSections>>
    /\ UNCHANGED <<otherPages, reports, rendering, currentUser, selectedFile, loading, error,
                   store, load,
                   uploads>>

NextRender ==
    \/ renderReport
    \/ Call
    \/ ProcessSection
    \/ CleanUp
    \/ returnDiet

SpecRender == InitRender /\ [][NextRender]_vars

-----------------------------------------------------------------------------
(* C14 *)

\* The buckets after the paragraphs from i on, from cursor and buckets fs.
RECURSIVE BucketsFrom(_, _, _, _)
BucketsFrom(paragraphs, i, cursor, fs) ==
    IF i > Len(paragraphs) THEN fs
    ELSE IF ContainsTrigger(paragraphs[i])
         THEN BucketsFrom(paragraphs, i + 1,
                          PriorityOrder[Least(Matching(paragraphs[i]))], fs)
         ELSE BucketsFrom(paragraphs, i + 1, cursor,
                          [fs EXCEPT ![cursor] = @ \o ItemsLineByLine(paragraphs[i])])

\* What a call gives when it is the only call made: a function of the page and
\* the plan.
ResultAlone(pg, plan) ==
    LET fs == BucketsFrom(split(plan, <<"\n", "\n">>), 1, "goals", emptySections)
    IN  [k \in SectionKeys |-> cleanItems(pg, fs[k])]

\* C14: whatever calls were made before it, each call of the reports list gives
\* the result it gives alone, so two calls on the same plan give equal results;
\* and a result once given is not changed by the calls after it.
C14_NoStateBetweenCalls ==
    [][/\ IsPrefix(diets, diets')
       /\ \A i \in 1..Len(diets') :
             hasDietPlan(reports[i]) => diets'[i] = ResultAlone(page, reports[i].dietPlan)
       /\ \A i, j \in 1..Len(diets') :
             (/\ hasDietPlan(reports[i])
              /\ hasDietPlan(reports[j])
              /\ reports[i].dietPlan = reports[j].dietPlan) => diets'[i] = diets'[j]]_vars

\* Two reports with the same plan have been rendered after each other, and the
\* second call gave what the first gave, items included.
C14_Witness ==
    /\ pc = "render"
    /\ Len(diets) = 2
    /\ hasDietPlan(reports[1]) /\ hasDietPlan(reports[2])
    /\ reports[1].dietPlan = ExampleRepeats
    /\ reports[2].dietPlan = ExampleRepeats
    /\ diets[1] = diets[2]
    /\ diets[2]["goals"] = <<<<"b">>, <<"a">>>>
    /\ diets[2]["greenFoods"] = <<<<"a">>, <<"a">>, <<"b">>, <<"a">>>>

-----------------------------------------------------------------------------
(* The Dashboard's upload: handleUpload, handleFileChange, loadInitialReports *)

\* handleUpload is called at most MaxUploads times.
MaxUploads == 1

\* What new Date().toISOString() can give, and the dates of the stored reports.
Dates == {1, 2}

\* The files the file input can give.
Files == {"report.pdf"}

\* The texts generateReportSummary can return.
Summaries == {"s1", "s2"}

\* The text compareSummaries returns for a prompt with these two summaries, when
\* it is not the empty string.
comparisonOf(oldSummary, newSummary) == <<"comparison", oldSummary, newSummary>>

\* The texts generateDietPlan can return, the empty string among them.
GeneratedPlans == {<<>>, ItemDrinkWater}

\* The locals of a call of handleUpload that has returned.
returned(at, caught) ==
    [pc |-> at, selectedFile |-> "undefined", uid |-> "undefined", summary |-> "undefined",
     prevReport |-> "undefined", newReport |-> "undefined", caught |-> caught]

\* What a rejected call throws: an Error with its message, or another value.
Thrown == {[isError |-> TRUE, message |-> "request failed"], [isError |-> FALSE]}

\* The collection when the Dashboard is mounted: empty, with a report of
\* another user, or with two reports of the user as well, the later one stored
\* first.
InitialStores ==
    {<<>>,
     <<reportOf("u2", "other.pdf", 2, "s0")>>,
     <<reportOf("u1", "first.pdf", 2, "s2"), reportOf("u1", "second.pdf", 1, "s1"),
       reportOf("u2", "other.pdf", 2, "s0")>>}

\* where('userId', '==', uid): the indices of the user's documents.
docsOf(uid) == {k \in 1..Len(store) : store[k].userId = uid}

\* The query that leaves out where('userId', '==', ...).
prevReportsQuery_anyUser(uid) ==
    IF store = <<>> THEN {<<>>}
    ELSE {<<store[k]>> : k \in {k \in 1..Len(store) :
                                   \A m \in 1..Len(store) : store[m].date <= store[k].date}}

\* prevReportsQuery: where userId, orderBy('date', 'desc'), limit(1).  The
\* snapshots getDocs can resolve to: no document, or one of the user's documents
\* with the latest date.
prevReportsQuery(uid) ==
    IF docsOf(uid) = {} THEN {<<>>}
    ELSE {<<store[k]>> : k \in {k \in docsOf(uid) :
                                   \A m \in docsOf(uid) : store[m].date <= store[k].date}}

\* The lists of the documents with indices in S, later dates first; documents
\* of one date in any order.
RECURSIVE byDateDesc(_)
byDateDesc(S) ==
    IF S = {} THEN {<<>>}
    ELSE UNION {{<<store[k]>> \o rest : rest \in byDateDesc(S \ {k})} :
                   k \in {k \in S : \A m \in S : store[m].date <= store[k].date}}

\* The query of loadReports: where userId, orderBy('date', 'desc').  The lists
\* getDocs can resolve to.
reportsQuery(uid) == byDateDesc(docsOf(uid))

\* err instanceof Error ? err.message : 'Failed to process report'
messageOf(err) == IF err.isError THEN err.message ELSE "Failed to process report"

\* The awaits of handleUpload whose rejection the outer catch takes.
OuterCalls ==
    {"extractTextFromPDF", "generateReportSummary", "getDocs", "compareSummaries", "addDoc"}

\* The Dashboard is mounted for the user, the effect has not run yet.
InitUpload ==
    /\ page = "Dashboard"
    /\ dietPlan = <<>>
    /\ nPieces = MaxPieces
    /\ pc = "render"
    /\ sections = <<>>
    /\ idx = 0
    /\ currentSection = "undefined"
    /\ formattedSections = "undefined"
    /\ reports = <<>>
    /\ rendering = 0
    /\ diets = <<>>
    /\ currentUser = "u1"
    /\ selectedFile = "null"
    /\ loading = FALSE
    /\ error = ""
    /\ store \in InitialStores
    /\ load = <<>>
    /\ uploads = <<>>
    /\ noOtherPage

\* useEffect: loadInitialReports up to the await getDocs of loadReports.
mount ==
    /\ load = <<>>
    /\ IF currentUser # "null"
       THEN loading' = TRUE /\ load' = <<[pc |-> "getDocs", uid |-> currentUser]>>
       ELSE loading' = loading /\ load' = <<[pc |-> "done", uid |-> currentUser]>>
    /\ UNCHANGED <<segmenter, otherPages, reports, rendering, diets, currentUser,
                   selectedFile, error,
                   store, uploads>>

\* loadInitialReports: getDocs resolves, setReports, finally setLoading(false).
loadInitialReports_resolved ==
    /\ \E n \in 1..Len(load) :
          /\ load[n].pc = "getDocs"
          /\ \E reportsList \in reportsQuery(load[n].uid) : reports' = reportsList
          /\ load' = [load EXCEPT ![n].pc = "done"]
    /\ loading' = FALSE
    /\ UNCHANGED <<segmenter, otherPages, rendering, diets, currentUser, selectedFile, error,
                   store,
                   uploads>>

\* loadInitialReports: getDocs rejects, the catch of loadReports sets the error,
\* finally setLoading(false).
loadInitialReports_rejected ==
    /\ \E n \in 1..Len(load) :
          /\ load[n].pc = "getDocs"
          /\ load' = [load EXCEPT ![n].pc = "done"]
    /\ error' = "Failed to load reports"
    /\ loading' = FALSE
    /\ UNCHANGED <<segmenter, otherPages, reports, rendering, diets, currentUser,
                   selectedFile, store,
                   uploads>>

\* handleFileChange: a file is chosen.
handleFileChange ==
    /\ \E file \in Files : selectedFile # file /\ selectedFile' = file
    /\ UNCHANGED <<segmenter, otherPages, reports, rendering, diets, currentUser, loading,
                   error, store,
                   load, uploads>>

\* A click on the Upload button, enabled when a file is selected and loading is
\* false: handleUpload up to await extractTextFromPDF.  The button with a file
\* selected belongs to a render after handleFileChange, and the effect of the
\* first render has run before any later render.
handleUpload ==
    /\ load # <<>>
    /\ selectedFile # "null" /\ ~loading
    /\ currentUser # "null"
    /\ Len(uploads) < MaxUploads
    /\ loading' = TRUE
    /\ error' = ""
    /\ uploads' = Append(uploads,
                         [pc |-> "extractTextFromPDF", selectedFile |-> selectedFile,
                          uid |-> currentUser, summary |-> "undefined",
                          prevReport |-> "undefined", newReport |-> "undefined",
                          caught |-> <<>>])
    /\ UNCHANGED <<segmenter, otherPages, reports, rendering, diets, currentUser,
                   selectedFile, store,
                   load>>

\* extractTextFromPDF resolves; generateReportSummary is called.
extractTextFromPDF_resolved ==
    /\ \E i \in 1..Len(uploads) :
          /\ uploads[i].pc = "extractTextFromPDF"
          /\ uploads' = [uploads EXCEPT ![i].pc = "generateReportSummary"]
    /\ UNCHANGED <<segmenter, otherPages, reports, rendering, diets, currentUser,
                   selectedFile, loading,
                   error, store, load>>

\* generateReportSummary resolves; getDocs(prevReportsQuery) is called.
generateReportSummary_resolved ==
    /\ \E i \in 1..Len(uploads), summary \in Summaries :
          /\ uploads[i].pc = "generateReportSummary"
          /\ uploads' = [uploads EXCEPT ![i].pc = "getDocs", ![i].summary = summary]
    /\ UNCHANGED <<segmenter, otherPages, reports, rendering, diets, currentUser,
                   selectedFile, loading,
                   error, store, load>>

\* getDocs(prevReportsQuery) resolves; newReport is made, and compareSummaries
\* is called when the snapshot is not empty, generateDietPlan when it is.
getDocs_resolved ==
    /\ \E i \in 1..Len(uploads) :
          /\ uploads[i].pc = "getDocs"
          /\ \E prevReportsSnapshot \in prevReportsQuery(uploads[i].uid), date \in Dates :
                uploads' =
                    [uploads EXCEPT
                        ![i].newReport = reportOf(uploads[i].uid, uploads[i].selectedFile,
                                                  date, uploads[i].summary),
                        ![i].prevReport = IF prevReportsSnapshot # <<>>
                                          THEN prevReportsSnapshot[1] ELSE @,
                        ![i].pc = IF prevReportsSnapshot # <<>>
                                  THEN "compareSummaries" ELSE "generateDietPlan"]
    /\ UNCHANGED <<segmenter, otherPages, reports, rendering, diets, currentUser,
                   selectedFile, loading,
                   error, store, load>>

\* compareSummaries resolves; a result that is not empty becomes
\* newReport.comparison; generateDietPlan is called.
compareSummaries_resolved ==
    /\ \E i \in 1..Len(uploads) :
          /\ uploads[i].pc = "compareSummaries"
          /\ \E comparisonResult \in
                    {<<>>, comparisonOf(uploads[i].prevReport.summary, uploads[i].summary)} :
                uploads' =
                    [uploads EXCEPT
                        ![i].newReport = IF comparisonResult # <<>>
                                         THEN withField(@, "comparison", comparisonResult)
                                         ELSE @,
                        ![i].pc = "generateDietPlan"]
    /\ UNCHANGED <<segmenter, otherPages, reports, rendering, diets, currentUser,
                   selectedFile, loading,
                   error, store, load>>

\* generateDietPlan resolves; a result that is not empty becomes
\* newReport.dietPlan; addDoc is called.
generateDietPlan_resolved ==
    /\ \E i \in 1..Len(uploads), dietPlanResult \in GeneratedPlans :
          /\ uploads[i].pc = "generateDietPlan"
          /\ uploads' =
                 [uploads EXCEPT
                     ![i].newReport = IF dietPlanResult # <<>>
                                      THEN withField(@, "dietPlan", dietPlanResult)
                                      ELSE @,
                     ![i].pc = "addDoc"]
    /\ UNCHANGED <<segmenter, otherPages, reports, rendering, diets, currentUser,
                   selectedFile, loading,
                   error, store, load>>

\* generateDietPlan rejects; the inner catch logs dietError; addDoc is called.
generateDietPlan_rejected ==
    /\ \E i \in 1..Len(uploads) :
          /\ uploads[i].pc = "generateDietPlan"
          /\ uploads' =
                 [uploads EXCEPT
                     ![i].caught = Append(@, "generateDietPlan"),
                     ![i].pc = "addDoc"]
    /\ UNCHANGED <<segmenter, otherPages, reports, rendering, diets, currentUser,
                   selectedFile, loading,
                   error, store, load>>

\* addDoc resolves: the document is in the collection; loadReports is called
\* and runs up to its await getDocs.
addDoc_resolved ==
    /\ \E i \in 1..Len(uploads) :
          /\ uploads[i].pc = "addDoc"
          /\ store' = Append(store, uploads[i].newReport)
          /\ uploads' = [uploads EXCEPT ![i].pc = "loadReports"]
    /\ UNCHANGED <<segmenter, otherPages, reports, rendering, diets, currentUser,
                   selectedFile, loading,
                   error, load>>

\* The getDocs of loadReports resolves: setReports; then setSelectedFile(null)
\* and, in the finally block, setLoading(false).
loadReports_resolved ==
    /\ \E i \in 1..Len(uploads) :
          /\ uploads[i].pc = "loadReports"
          /\ \E reportsList \in reportsQuery(uploads[i].uid) : reports' = reportsList
          /\ uploads' = [uploads EXCEPT ![i] = returned("completed", @.caught)]
    /\ selectedFile' = "null"
    /\ loading' = FALSE
    /\ UNCHANGED <<segmenter, otherPages, rendering, diets, currentUser, error, store, load>>

\* The rejection of the refresh taken as the end of handleUpload, without the
\* finally block.
loadReports_rejected_noFinally ==
    /\ \E i \in 1..Len(uploads) :
          /\ uploads[i].pc = "loadReports"
          /\ uploads' =
                 [uploads EXCEPT
                     ![i] = returned("completed", Append(@.caught, "loadReports"))]
    /\ error' = "Failed to load reports"
    /\ selectedFile' = "null"
    /\ UNCHANGED <<segmenter, otherPages, reports, rendering, diets, currentUser, loading,
                   store, load>>

\* The getDocs of loadReports rejects: the catch of loadReports sets the error
\* and loadReports returns; then setSelectedFile(null) and setLoading(false).
loadReports_rejected ==
    /\ \E i \in 1..Len(uploads) :
          /\ uploads[i].pc = "loadReports"
          /\ uploads' =
                 [uploads EXCEPT
                     ![i] = returned("completed", Append(@.caught, "loadReports"))]
    /\ error' = "Failed to load reports"
    /\ selectedFile' = "null"
    /\ loading' = FALSE
    /\ UNCHANGED <<segmenter, otherPages, reports, rendering, diets, currentUser, store, load>>

\* The outer catch with the setSelectedFile(null) of the try block in it.
rejected_clearsFile ==
    /\ \E i \in 1..Len(uploads), err \in Thrown :
          /\ uploads[i].pc \in OuterCalls
          /\ uploads' =
                 [uploads EXCEPT ![i] = returned("caught", Append(@.caught, @.pc))]
          /\ error' = messageOf(err)
    /\ selectedFile' = "null"
    /\ loading' = FALSE
    /\ UNCHANGED <<segmenter, otherPages, reports, rendering, diets, currentUser, store, load>>

\* The outer catch without its setError.
rejected_silent ==
    /\ \E i \in 1..Len(uploads) :
          /\ uploads[i].pc \in OuterCalls
          /\ uploads' =
                 [uploads EXCEPT ![i] = returned("caught", Append(@.caught, @.pc))]
    /\ loading' = FALSE
    /\ UNCHANGED <<segmenter, otherPages, reports, rendering, diets, currentUser,
                   selectedFile, error,
                   store, load>>

\* One of the other awaits rejects: the outer catch sets the error from err,
\* the finally block sets loading to false, and handleUpload is over.
rejected ==
    /\ \E i \in 1..Len(uploads), err \in Thrown :
          /\ uploads[i].pc \in OuterCalls
          /\ uploads' =
                 [uploads EXCEPT ![i] = returned("caught", Append(@.caught, @.pc))]
          /\ error' = messageOf(err)
    /\ loading' = FALSE
    /\ UNCHANGED <<segmenter, otherPages, reports, rendering, diets, currentUser,
                   selectedFile, store,
                   load>>

NextUpload ==
    \/ mount
    \/ loadInitialReports_resolved
    \/ loadInitialReports_rejected
    \/ handleFileChange
    \/ handleUpload
    \/ extractTextFromPDF_resolved
    \/ generateReportSummary_resolved
    \/ getDocs_resolved
    \/ compareSummaries_resolved
    \/ generateDietPlan_resolved
    \/ generateDietPlan_rejected
    \/ addDoc_resolved
    \/ loadReports_resolved
    \/ loadReports_rejected
    \/ rejected

SpecUpload == InitUpload /\ [][NextUpload]_vars

-----------------------------------------------------------------------------
(* C15 *)

\* The awaited calls of handleUpload in the order of its text, and the place of
\* a position in that order; a call that has returned is past them all.
CallOrder ==
    <<"extractTextFromPDF", "generateReportSummary", "getDocs", "compareSummaries",
      "generateDietPlan", "addDoc", "loadReports">>

PlaceOf(at) ==
    IF \E n \in 1..Len(CallOrder) : CallOrder[n] = at
    THEN CHOOSE n \in 1..Len(CallOrder) : CallOrder[n] = at
    ELSE Len(CallOrder) + 1

\* A call of upload i fails in the step.
FailsIn(i) == Len(uploads'[i].caught) > Len(uploads[i].caught)

\* C15 as stated: whichever awaited call of a handleUpload fails, the step that
\* takes the failure inserts nothing, sets a non-empty error and ends the
\* upload, the upload has inserted nothing before, and an upload in which a call
\* failed makes no further step.
C15_AnyFailureAbandons ==
    [][\A i \in 1..Len(uploads) :
          /\ FailsIn(i) =>
                /\ store' = store
                /\ uploads[i].pc # "loadReports"
                /\ error' # ""
                /\ uploads'[i].pc = "caught"
          /\ uploads[i].caught # <<>> => uploads'[i] = uploads[i]]_vars

\* C15 amended: a failure of extractTextFromPDF, generateReportSummary, the
\* query for the previous report, compareSummaries or addDoc ends the upload with
\* nothing inserted, a non-empty error and loading false; a failure of
\* generateDietPlan sets no error and the upload goes on to addDoc with a record
\* that has no dietPlan; a failure of the refresh after addDoc leaves the inserted
\* record in the store and sets the error "Failed to load reports"; a record is
\* inserted only by an upload none of whose calls but generateDietPlan failed; an
\* upload ended by its catch makes no further step; and every step of an upload
\* moves it forward in the order of its calls, so no call is made twice.
C15_FailureHandling ==
    [][/\ \A i \in 1..Len(uploads) :
             /\ (FailsIn(i) /\ uploads[i].pc \in OuterCalls) =>
                   /\ store' = store
                   /\ error' # ""
                   /\ ~loading'
                   /\ uploads'[i].pc = "caught"
             /\ (FailsIn(i) /\ uploads[i].pc = "generateDietPlan") =>
                   /\ store' = store
                   /\ error' = error
                   /\ uploads'[i].pc = "addDoc"
                   /\ uploads'[i].newReport = uploads[i].newReport
                   /\ "dietPlan" \notin DOMAIN uploads'[i].newReport
             /\ (FailsIn(i) /\ uploads[i].pc = "loadReports") =>
                   /\ store' = store
                   /\ \E k \in 1..Len(store) : store[k] = uploads[i].newReport
                   /\ error' = "Failed to load reports"
                   /\ uploads'[i].pc = "completed"
             /\ FailsIn(i) =>
                   uploads[i].pc \in OuterCalls \cup {"generateDietPlan", "loadReports"}
             /\ uploads[i].pc = "caught" => uploads'[i] = uploads[i]
             /\ uploads'[i] # uploads[i] => PlaceOf(uploads'[i].pc) > PlaceOf(uploads[i].pc)
       /\ store' # store =>
             \E i \in 1..Len(uploads) :
                 /\ uploads[i].pc = "addDoc"
                 /\ store' = Append(store, uploads[i].newReport)
                 /\ \A n \in 1..Len(uploads[i].caught) :
                        uploads[i].caught[n] = "generateDietPlan"]_vars

\* compareSummaries failed in an upload of a user with stored reports: the
\* upload is over, the error is shown, and the store is as it was.
C15_Witness ==
    /\ Len(uploads) = 1
    /\ uploads[1].pc = "caught"
    /\ uploads[1].caught = <<"compareSummaries">>
    /\ error # ""
    /\ ~loading
    /\ store \in InitialStores

-----------------------------------------------------------------------------
(* C16 *)

\* The stored reports of a user, and those of them with the latest date.
StoredOf(uid) == {k \in 1..Len(store) : store[k].userId = uid}

LatestOf(uid) == {k \in StoredOf(uid) : \A m \in StoredOf(uid) : store[m].date <= store[k].date}

\* C16: when the query for the previous report resolves, the upload goes on to
\* compareSummaries with one of the user's stored reports of the latest date if
\* the user has a stored report, and past it if not; and the record an upload
\* inserts has a comparison field only if the user has a stored report already,
\* the comparison being the one of the summary of a latest report of the user and
\* the record's summary; the record of a user with no stored report has no
\* comparison field.
C16_ComparisonWithLatest ==
    [][/\ \A i \in 1..Len(uploads) :
             (uploads[i].pc = "getDocs" /\ uploads'[i].pc \notin {"getDocs", "caught"}) =>
                 IF StoredOf(uploads[i].uid) = {}
                 THEN uploads'[i].pc = "generateDietPlan"
                 ELSE /\ uploads'[i].pc = "compareSummaries"
                      /\ \E k \in LatestOf(uploads[i].uid) : uploads'[i].prevReport = store[k]
       /\ store' # store =>
             LET record == store'[Len(store')]
             IN  /\ store' = Append(store, record)
                 /\ "comparison" \in DOMAIN record =>
                       /\ StoredOf(record.userId) # {}
                       /\ \E k \in LatestOf(record.userId) :
                              record.comparison = comparisonOf(store[k].summary, record.summary)
                 /\ StoredOf(record.userId) = {} => "comparison" \notin DOMAIN record]_vars

\* An upload of a user with two stored reports has inserted its record: the
\* comparison is the one of the summary s2 of the report of the later date, which
\* was stored first, and the new summary s1.
C16_Witness ==
    /\ Len(store) = 4
    /\ store[1] = reportOf("u1", "first.pdf", 2, "s2")
    /\ store[4].userId = "u1"
    /\ store[4].summary = "s1"
    /\ "comparison" \in DOMAIN store[4]
    /\ store[4].comparison = comparisonOf("s2", "s1")

-----------------------------------------------------------------------------
(* C21 *)

\* C21: the two copies return the same six sequences: they are the same text up
\* to the clean-up, and the clean-up of the page at hand leaves in every bucket
\* what the clean-up of either page leaves.
C21_CopiesAgree ==
    [][(pc = "cleanup" /\ pc' = "done") =>
          \A pg \in Pages :
              \A k \in SectionKeys :
                  formattedSections'[k] = cleanItems(pg, formattedSections[k])]_vars

-----------------------------------------------------------------------------
(* C22 *)

\* A paragraph before the one the forEach is at was taken as a heading of key.
HeadingSeen(key) ==
    \E i \in 1..(idx - 1) :
        /\ i <= Len(sections)
        /\ ContainsTrigger(sections[i])
        /\ PriorityOrder[Least(Matching(sections[i]))] = key

\* C22: a bucket other than goals has items only if a paragraph processed
\* before was a heading of its key; special has items only if such a paragraph
\* includes "special instructions" or "special dietary"; and once a heading
\* paragraph has been processed, no later paragraph adds to goals.
C22_BucketProvenance ==
    [][/\ pc' \in {"forEach", "cleanup", "done"} =>
            /\ \A k \in SectionKeys \ {"goals"} :
                   formattedSections'[k] # <<>> => HeadingSeen(k)'
            /\ formattedSections'["special"] # <<>> =>
                   \E i \in 1..Len(sections') :
                       \/ includes(toLowerCase(sections'[i]), specialInstructions)
                       \/ includes(toLowerCase(sections'[i]), specialDietary)
       /\ (pc = "forEach" /\ \E i \in 1..(idx - 1) : ContainsTrigger(sections[i])) =>
            formattedSections'["goals"] = formattedSections["goals"]]_vars

\* A finished call on a plan with four headings, each followed by one line: the
\* four buckets named have one item each, goals and timing have none.
C22_Witness ==
    /\ pc = "done"
    /\ dietPlan = ExampleOtherPhrases
    /\ formattedSections["greenFoods"] = <<<<"a">>>>
    /\ formattedSections["yellowFoods"] = <<<<"b">>>>
    /\ formattedSections["redFoods"] = <<<<"a">>>>
    /\ formattedSections["special"] = <<<<"b">>>>
    /\ formattedSections["goals"] = <<>>
    /\ formattedSections["timing"] = <<>>

-----------------------------------------------------------------------------
(* C23 *)

\* x is what is left of y when characters of y are deleted.
RECURSIVE DeletedFrom(_, _)
DeletedFrom(x, y) ==
    IF x = <<>> THEN TRUE
    ELSE IF y = <<>> THEN FALSE
    ELSE IF x[1] = y[1] THEN DeletedFrom(Tail(x), Tail(y))
    ELSE DeletedFrom(x, Tail(y))

\* The lines of the paragraphs that have no heading phrase, as <<i, n>> for line
\* n of paragraph i, and those of them that are not blank.
ContentLines ==
    UNION {{<<i, n>> : n \in 1..Len(split(sections[i], <<"\n">>))} :
              i \in {i \in 1..Len(sections) : ~ContainsTrigger(sections[i])}}

LineAt(ln) == split(sections[ln[1]], <<"\n">>)[ln[2]]

NonBlankLines == {ln \in ContentLines : trim(LineAt(ln)) # <<>>}

RECURSIVE SumOver(_, _)
SumOver(f, S) ==
    IF S = {} THEN 0
    ELSE LET k == CHOOSE k \in S : TRUE IN f[k] + SumOver(f, S \ {k})

\* C23: when the forEach is over and when the call is, every item is what is
\* left of one line of a paragraph without heading phrase when characters are
\* deleted from it, and the six buckets together have no more items than those
\* paragraphs have lines that are not blank.
C23_NothingInvented ==
    pc \in {"cleanup", "done"} =>
        LET nonBlank == NonBlankLines
            texts == {LineAt(ln) : ln \in nonBlank}
        IN  /\ \A k \in SectionKeys :
                   \A i \in 1..Len(formattedSections[k]) :
                       \E text \in texts : DeletedFrom(formattedSections[k][i], text)
            /\ SumOver([k \in SectionKeys |-> Len(formattedSections[k])], SectionKeys)
                   <= Cardinality(nonBlank)

\* A finished call of the Dashboard copy on two bullet lines: two items, each
\* its line without the glyph and the space.
C23_Witness ==
    /\ pc = "done"
    /\ page = "Dashboard"
    /\ dietPlan = ExampleDotBullets
    /\ formattedSections["goals"] = <<TextApples, TextLeafyGreens>>
    /\ Cardinality(NonBlankLines) = 2

-----------------------------------------------------------------------------
(* C24 *)

\* Upload i makes a step.
Moves(i) == uploads'[i] # uploads[i]

\* C24: an upload ends in its catch only from a call before the record is in
\* the store; the steps of an upload up to addDoc, the step into the catch and
\* the click that starts it leave the store, the reports shown and the selected
\* file as they are, the file still selected; the selected file is cleared only
\* by an upload whose record is in the store; and the store changes only by one
\* record at its end, put there by an upload at addDoc that then moves on, the
\* record having the upload's userId, fileName and summary and a date.
C24_FailureLeavesState ==
    [][/\ \A i \in 1..Len(uploads) :
             /\ (Moves(i) /\ uploads'[i].pc = "caught") =>
                   /\ uploads[i].pc \in OuterCalls
                   /\ store' = store
                   /\ reports' = reports
                   /\ selectedFile' = selectedFile
                   /\ selectedFile # "null"
             /\ (Moves(i) /\ PlaceOf(uploads[i].pc) < PlaceOf("addDoc")) =>
                   /\ store' = store
                   /\ reports' = reports
                   /\ selectedFile' = selectedFile
             /\ Moves(i) => PlaceOf(uploads'[i].pc) > PlaceOf(uploads[i].pc)
       /\ Len(uploads') > Len(uploads) =>
             /\ store' = store
             /\ reports' = reports
             /\ selectedFile' = selectedFile
       /\ (selectedFile # "null" /\ selectedFile' = "null") =>
             \E i \in 1..Len(uploads) :
                 /\ uploads[i].pc = "loadReports"
                 /\ \E k \in 1..Len(store) : store[k] = uploads[i].newReport
       /\ store' # store =>
             \E i \in 1..Len(uploads) :
                 LET record == store'[Len(store')]
                 IN  /\ uploads[i].pc = "addDoc"
                     /\ uploads'[i].pc = "loadReports"
                     /\ store' = Append(store, record)
                     /\ {"userId", "fileName", "date", "summary"} \subseteq DOMAIN record
                     /\ record.userId = uploads[i].uid
                     /\ record.fileName = uploads[i].selectedFile
                     /\ record.summary = uploads[i].summary
                     /\ record.date \in Dates]_vars

\* addDoc failed in an upload of a user with stored reports: the store and the
\* list shown are those of the page load, and the file is still selected.
C24_Witness ==
    /\ Len(uploads) = 1
    /\ uploads[1].pc = "caught"
    /\ uploads[1].caught = <<"addDoc">>
    /\ Len(store) = 3
    /\ Len(reports) = 2
    /\ selectedFile = "report.pdf"
    /\ error # ""

-----------------------------------------------------------------------------
(* C25 *)

\* An awaited call of an upload or of the page load returns or throws.
settles ==
    \/ loadInitialReports_resolved
    \/ loadInitialReports_rejected
    \/ extractTextFromPDF_resolved
    \/ generateReportSummary_resolved
    \/ getDocs_resolved
    \/ compareSummaries_resolved
    \/ generateDietPlan_resolved
    \/ generateDietPlan_rejected
    \/ addDoc_resolved
    \/ loadReports_resolved
    \/ loadReports_rejected
    \/ rejected

\* The Dashboard when every awaited call eventually returns or throws.
SpecUploadFair == SpecUpload /\ WF_vars(settles)

\* Upload i has returned.
Finished(i) == Len(uploads) >= i /\ uploads[i].pc \in {"completed", "caught"}

\* No upload and no page load is waiting for a call.
NothingAwaited ==
    /\ \A i \in 1..Len(uploads) : Finished(i)
    /\ \A n \in 1..Len(load) : load[n].pc = "done"

\* C25: every handleUpload that has started comes to its end with loading
\* false, whichever of its calls fail; and loading is false whenever no upload
\* and no page load is waiting for a call.
C25_LoadingComesBack ==
    /\ [](NothingAwaited => ~loading)
    /\ \A i \in 1..MaxUploads : [](Len(uploads) >= i => <>(Finished(i) /\ ~loading))

\* The refresh after the insertion failed: the upload is over and loading is
\* false.
C25_Witness ==
    /\ Len(uploads) = 1
    /\ uploads[1].pc = "completed"
    /\ uploads[1].caught = <<"loadReports">>
    /\ Len(store) \in {1, 2, 4}
    /\ ~loading

-----------------------------------------------------------------------------
(* The Dashboard when useAuth gives another currentUser *)

\* loadInitialReports runs at most MaxLoads times.
MaxLoads == 2

\* The users that can be signed in.
Users == {"u1", "u2"}

\* useAuth() gives another currentUser object, for the same user or another:
\* the component renders again and the effect runs again, loadInitialReports up
\* to the await getDocs of loadReports.
currentUserChanges ==
    /\ load # <<>>
    /\ Len(load) < MaxLoads
    /\ \E user \in Users :
          /\ currentUser' = user
          /\ load' = Append(load, [pc |-> "getDocs", uid |-> user])
    /\ loading' = TRUE
    /\ UNCHANGED <<segmenter, otherPages, reports, rendering, diets, selectedFile, error,
                   store, uploads>>

NextReload ==
    \/ NextUpload
    \/ currentUserChanges

SpecReload == InitUpload /\ [][NextReload]_vars

-----------------------------------------------------------------------------
(* C26 *)

\* C26: while a handleUpload has not returned, loading is true, and no two
\* calls of handleUpload are under way at once.
C26_NoOverlap ==
    /\ (\E i \in 1..Len(uploads) : ~Finished(i)) => loading
    /\ \A i, j \in 1..Len(uploads) : i # j => (Finished(i) \/ Finished(j))

-----------------------------------------------------------------------------
(* The Diet page: loadLatestDietPlan and what DietPlan renders *)

\* The collection holds at most MaxStored documents when the page is shown.
MaxStored == 2

\* The diet plans of stored reports: handleUpload stores a plan only when it is
\* not empty.
StoredPlans == {ItemDrinkWater, ItemBoldTip}

\* The documents handleUpload can have inserted.
StoredReports ==
    {reportOf(user, "report.pdf", date, "s1") : user \in Users, date \in Dates}
    \cup {withField(reportOf(user, "report.pdf", date, "s1"), "dietPlan", plan) :
             user \in Users, date \in Dates, plan \in StoredPlans}

\* The collections the page can find.
DietStores == UNION {[1..n -> StoredReports] : n \in 0..MaxStored}

\* where('userId', '==', uid), where('dietPlan', '!=', null): the indices of the
\* user's documents with a dietPlan field.
dietDocsOf(uid) ==
    {k \in 1..Len(store) : store[k].userId = uid /\ "dietPlan" \in DOMAIN store[k]}

\* The query with orderBy('date') ascending.
latestDietPlanQuery_earliest(uid) ==
    IF dietDocsOf(uid) = {} THEN {<<>>}
    ELSE {<<store[k]>> : k \in {k \in dietDocsOf(uid) :
                                   \A m \in dietDocsOf(uid) : store[k].date <= store[m].date}}

\* The query of loadLatestDietPlan: orderBy('date', 'desc'), limit(1).  The
\* snapshots getDocs can resolve to: no document, or one of the documents of
\* dietDocsOf with the latest date.
latestDietPlanQuery(uid) ==
    IF dietDocsOf(uid) = {} THEN {<<>>}
    ELSE {<<store[k]>> : k \in {k \in dietDocsOf(uid) :
                                   \A m \in dietDocsOf(uid) : store[m].date <= store[k].date}}

\* latestReport.dietPlan || null
orNull(plan) == IF plan = <<>> THEN <<>> ELSE <<plan>>

\* What DietPlan renders below the heading.
DietView ==
    IF loading THEN "Loading your diet plan..."
    ELSE IF latestDietPlan = <<>> THEN "No Diet Plan Available"
    ELSE "formatDietPlan(latestDietPlan)"

\* The Diet page after its first render, reached through PrivateRoute.
InitDiet ==
    /\ page = "Diet"
    /\ dietPlan = <<>>
    /\ nPieces = MaxPieces
    /\ pc = "render"
    /\ sections = <<>>
    /\ idx = 0
    /\ currentSection = "undefined"
    /\ formattedSections = "undefined"
    /\ reports = <<>>
    /\ rendering = 0
    /\ diets = <<>>
    /\ currentUser = "u1"
    /\ selectedFile = "null"
    /\ loading = TRUE
    /\ error = ""
    /\ store \in DietStores
    /\ load = <<>>
    /\ uploads = <<>>
    /\ noOtherPage

\* useEffect: loadLatestDietPlan up to await getDocs.
loadLatestDietPlan ==
    /\ load = <<>>
    /\ IF currentUser = "null"
       THEN loading' = loading
            /\ load' = <<[pc |-> "done", uid |-> currentUser, querySnapshot |-> <<>>]>>
       ELSE loading' = TRUE
            /\ load' = <<[pc |-> "getDocs", uid |-> currentUser, querySnapshot |-> <<>>]>>
    /\ UNCHANGED <<segmenter, otherPages, reports, rendering, diets, currentUser,
                   selectedFile, error, store, uploads>>

\* getDocs resolves: setLatestDietPlan, finally setLoading(false).
loadLatestDietPlan_resolved ==
    /\ \E n \in 1..Len(load) :
          /\ load[n].pc = "getDocs"
          /\ \E querySnapshot \in latestDietPlanQuery(load[n].uid) :
                /\ load' = [load EXCEPT ![n].pc = "done",
                                        ![n].querySnapshot = querySnapshot]
                /\ latestDietPlan' = IF querySnapshot = <<>> THEN <<>>
                                     ELSE orNull(querySnapshot[1].dietPlan)
    /\ loading' = FALSE
    /\ UNCHANGED <<segmenter, messages, inputMessage, reportContext, reportFile, sends, reports,
                   rendering, diets, currentUser, selectedFile, error, store, uploads>>

\* The catch without setError.
loadLatestDietPlan_rejected_silent ==
    /\ \E n \in 1..Len(load) :
          /\ load[n].pc = "getDocs"
          /\ load' = [load EXCEPT ![n].pc = "caught"]
    /\ loading' = FALSE
    /\ UNCHANGED <<segmenter, otherPages, reports, rendering, diets, currentUser,
                   selectedFile, error, store, uploads>>

\* query or getDocs throws: the catch sets the error, finally setLoading(false).
loadLatestDietPlan_rejected ==
    /\ \E n \in 1..Len(load) :
          /\ load[n].pc = "getDocs"
          /\ load' = [load EXCEPT ![n].pc = "caught"]
    /\ error' = "Failed to load your diet plan"
    /\ loading' = FALSE
    /\ UNCHANGED <<segmenter, otherPages, reports, rendering, diets, currentUser,
                   selectedFile, store, uploads>>

NextDiet ==
    \/ loadLatestDietPlan
    \/ loadLatestDietPlan_resolved
    \/ loadLatestDietPlan_rejected

SpecDiet == InitDiet /\ [][NextDiet]_vars

\* The effect runs after the first render, and the query returns or throws.
SpecDietFair == SpecDiet /\ WF_vars(NextDiet)

-----------------------------------------------------------------------------
(* C27 *)

\* The user's documents with a diet plan and no later one with a diet plan.
LatestWithPlan ==
    {k \in 1..Len(store) :
        /\ store[k].userId = currentUser /\ hasDietPlan(store[k])
        /\ \A m \in 1..Len(store) :
              store[m].userId = currentUser /\ hasDietPlan(store[m])
                  => store[m].date <= store[k].date}

\* C27: the Diet page leaves the loading state for good once its query has
\* returned or thrown.  When the query returns no report the page shows no diet
\* plan; when it returns one the page holds the dietPlan of one of the user's
\* most recent reports with a diet plan; when the query fails the error is set
\* and latestDietPlan keeps its value.
C27_DietPageLoad ==
    /\ <>[](~loading)
    /\ [][\A n \in 1..Len(load) :
             (load[n].pc = "getDocs" /\ load'[n].pc # "getDocs") =>
                 /\ ~loading'
                 /\ load'[n].pc = "done" /\ load'[n].querySnapshot = <<>> =>
                        /\ LatestWithPlan = {}
                        /\ latestDietPlan' = <<>>
                        /\ DietView' = "No Diet Plan Available"
                        /\ error' = error
                 /\ load'[n].pc = "done" /\ load'[n].querySnapshot # <<>> =>
                        /\ \E k \in LatestWithPlan :
                              latestDietPlan' = <<store[k].dietPlan>>
                        /\ DietView' = "formatDietPlan(latestDietPlan)"
                        /\ error' = error
                 /\ load'[n].pc = "caught" =>
                        /\ error' = "Failed to load your diet plan"
                        /\ latestDietPlan' = latestDietPlan]_vars

\* C27 witness: with two reports of the user that have different diet plans,
\* the page has left the loading state and holds the plan of the later one.
C27_Witness ==
    /\ page = "Diet" /\ ~loading
    /\ load # <<>> /\ load[1].pc = "done"
    /\ Len(store) = 2
    /\ store[1].userId = currentUser /\ store[2].userId = currentUser
    /\ hasDietPlan(store[1]) /\ hasDietPlan(store[2])
    /\ store[1].date < store[2].date
    /\ store[1].dietPlan # store[2].dietPlan
    /\ latestDietPlan = <<store[2].dietPlan>>

-----------------------------------------------------------------------------
(* The Chat page: loadLatestReport, the textarea and handleSendMessage *)

\* handleSendMessage is called at most MaxSends times.
MaxSends == 3

\* What the user types into the textarea.
Typed == {<<" ">>, <<"h", "i">>, <<" ", "o", "k", "?", " ">>}

\* What askQuestionWithContext resolves to.
Answers == {<<"y", "e", "s">>}

\* The text of the message of the catch of handleSendMessage.
Apology == <<"I'm sorry, I wasn't able to process your question. Please try again.">>

\* The text of the first message when a report was found.
Welcome(fileName) ==
    <<"Hello! I've analyzed your latest report (", fileName,
      "). How can I help you understand it better?">>

\* The text of the first message when no report was found.
NoReports ==
    <<"You don't have any reports uploaded yet. Please upload a medical report first so I can help answer questions about it.">>

\* A Message, without its id and timestamp.
Message(sender, text) == [sender |-> sender, text |-> text]

\* The query of loadLatestReport: where userId, orderBy('date', 'desc'),
\* limit(1).
latestReportQuery(uid) == prevReportsQuery(uid)

\* The textarea that stays enabled while loading.
textareaEnabled_whileLoading == reportContext # "null"

\* The textarea: disabled={!reportContext || loading}
textareaEnabled == reportContext # "null" /\ ~loading

\* The Send button: disabled={!inputMessage.trim() || !reportContext || loading}
buttonEnabled == trim(inputMessage) # <<>> /\ reportContext # "null" /\ ~loading

\* The Chat page after its first render.
InitChat ==
    /\ page = "Chat"
    /\ dietPlan = <<>>
    /\ nPieces = MaxPieces
    /\ pc = "render"
    /\ sections = <<>>
    /\ idx = 0
    /\ currentSection = "undefined"
    /\ formattedSections = "undefined"
    /\ reports = <<>>
    /\ rendering = 0
    /\ diets = <<>>
    /\ currentUser = "u1"
    /\ selectedFile = "null"
    /\ loading = FALSE
    /\ error = ""
    /\ store \in InitialStores
    /\ load = <<>>
    /\ uploads = <<>>
    /\ noOtherPage

\* useEffect: loadLatestReport up to await getDocs.
loadLatestReport ==
    /\ load = <<>>
    /\ IF currentUser = "null"
       THEN loading' = loading /\ load' = <<[pc |-> "done", uid |-> currentUser]>>
       ELSE loading' = TRUE /\ load' = <<[pc |-> "getDocs", uid |-> currentUser]>>
    /\ UNCHANGED <<segmenter, otherPages, reports, rendering, diets, currentUser,
                   selectedFile, error, store, uploads>>

\* getDocs resolves: the context and the first message are set, finally
\* setLoading(false).
loadLatestReport_resolved ==
    /\ \E n \in 1..Len(load) :
          /\ load[n].pc = "getDocs"
          /\ load' = [load EXCEPT ![n].pc = "done"]
          /\ \E querySnapshot \in latestReportQuery(load[n].uid) :
                IF querySnapshot # <<>>
                THEN /\ reportContext' = querySnapshot[1].summary
                     /\ reportFile' = querySnapshot[1].fileName
                     /\ messages' = <<Message("ai", Welcome(querySnapshot[1].fileName))>>
                ELSE /\ messages' = <<Message("ai", NoReports)>>
                     /\ UNCHANGED <<reportContext, reportFile>>
    /\ loading' = FALSE
    /\ UNCHANGED <<segmenter, latestDietPlan, inputMessage, sends, reports, rendering,
                   diets, currentUser, selectedFile, error, store, uploads>>

\* getDocs rejects: the catch logs, finally setLoading(false).
loadLatestReport_rejected ==
    /\ \E n \in 1..Len(load) :
          /\ load[n].pc = "getDocs"
          /\ load' = [load EXCEPT ![n].pc = "done"]
    /\ loading' = FALSE
    /\ UNCHANGED <<segmenter, otherPages, reports, rendering, diets, currentUser,
                   selectedFile, error, store, uploads>>

\* onChange of the textarea: setInputMessage(e.target.value).
onChange ==
    /\ textareaEnabled
    /\ \E value \in Typed \cup {<<>>} : inputMessage # value /\ inputMessage' = value
    /\ UNCHANGED <<segmenter, component, latestDietPlan, messages, reportContext,
                   reportFile, sends>>

\* handleSendMessage up to its return or to await askQuestionWithContext.
handleSendMessage ==
    /\ Len(sends) < MaxSends
    /\ IF trim(inputMessage) = <<>> \/ reportContext = "null"
       THEN /\ sends' = Append(sends, [pc |-> "done", inputMessage |-> inputMessage])
            /\ UNCHANGED <<messages, inputMessage, loading>>
       ELSE /\ messages' = Append(messages, Message("user", inputMessage))
            /\ inputMessage' = <<>>
            /\ loading' = TRUE
            /\ sends' = Append(sends, [pc |-> "askQuestionWithContext",
                                       inputMessage |-> inputMessage])
    /\ UNCHANGED <<segmenter, latestDietPlan, reportContext, reportFile, reports,
                   rendering, diets, currentUser, selectedFile, error, store, load, uploads>>

\* A click on the Send button.
onClick ==
    /\ buttonEnabled
    /\ handleSendMessage

\* handleKeyDown in the textarea, for Enter without Shift.
handleKeyDown ==
    /\ textareaEnabled
    /\ handleSendMessage

\* askQuestionWithContext resolves: the answer is appended, finally
\* setLoading(false).
askQuestionWithContext_resolved ==
    /\ \E i \in 1..Len(sends), aiResponse \in Answers :
          /\ sends[i].pc = "askQuestionWithContext"
          /\ sends' = [sends EXCEPT ![i].pc = "done"]
          /\ messages' = Append(messages, Message("ai", aiResponse))
    /\ loading' = FALSE
    /\ UNCHANGED <<segmenter, latestDietPlan, inputMessage, reportContext, reportFile,
                   reports, rendering, diets, currentUser, selectedFile, error, store,
                   load, uploads>>

\* askQuestionWithContext rejects: the apology is appended, finally
\* setLoading(false).
askQuestionWithContext_rejected ==
    /\ \E i \in 1..Len(sends) :
          /\ sends[i].pc = "askQuestionWithContext"
          /\ sends' = [sends EXCEPT ![i].pc = "done"]
          /\ messages' = Append(messages, Message("ai", Apology))
    /\ loading' = FALSE
    /\ UNCHANGED <<segmenter, latestDietPlan, inputMessage, reportContext, reportFile,
                   reports, rendering, diets, currentUser, selectedFile, error, store,
                   load, uploads>>

NextChat ==
    \/ loadLatestReport
    \/ loadLatestReport_resolved
    \/ loadLatestReport_rejected
    \/ onChange
    \/ onClick
    \/ handleKeyDown
    \/ askQuestionWithContext_resolved
    \/ askQuestionWithContext_rejected

SpecChat == InitChat /\ [][NextChat]_vars

\* The calls the page awaits return or throw.
awaited ==
    \/ loadLatestReport_resolved
    \/ loadLatestReport_rejected
    \/ askQuestionWithContext_resolved
    \/ askQuestionWithContext_rejected

SpecChatFair == SpecChat /\ WF_vars(awaited)

-----------------------------------------------------------------------------
(* C28 *)

\* A call of handleSendMessage is awaiting askQuestionWithContext.
Asking == \E i \in 1..Len(sends) : sends[i].pc = "askQuestionWithContext"

\* C28: a call of handleSendMessage with a blank input or without a report
\* context leaves messages, input and loading as they are; any other call
\* appends the user message and sets loading, and when askQuestionWithContext
\* has returned or thrown exactly one AI message is appended, an answer or the
\* apology, and loading is false; every call that asked comes to that.  In the
\* list every user message is followed by one AI message and then by no other
\* AI message, except the last user message while its answer is awaited.
C28_MessagePairing ==
    /\ [][Len(sends') = Len(sends) + 1 =>
             IF trim(inputMessage) = <<>> \/ reportContext = "null"
             THEN /\ messages' = messages
                  /\ inputMessage' = inputMessage
                  /\ loading' = loading
             ELSE /\ messages' = Append(messages, Message("user", inputMessage))
                  /\ loading']_vars
    /\ [][\A i \in 1..Len(sends) :
             (sends[i].pc = "askQuestionWithContext" /\ sends'[i].pc = "done") =>
                 /\ \E text \in Answers \cup {Apology} :
                       messages' = Append(messages, Message("ai", text))
                 /\ ~loading']_vars
    /\ [](\A i \in 1..Len(messages) :
             messages[i].sender = "user" =>
                 IF i = Len(messages) THEN Asking /\ loading
                 ELSE /\ messages[i + 1].sender = "ai"
                      /\ i + 2 <= Len(messages) => messages[i + 2].sender = "user")
    /\ \A i \in 1..MaxSends :
          (Len(sends) >= i) ~> (Len(sends) >= i /\ sends[i].pc = "done")

\* C28 witness: a call with a blank input that changed nothing, then two
\* questions, the first answered and the second with the apology.
C28_Witness ==
    /\ page = "Chat" /\ ~loading
    /\ Len(sends) = 3
    /\ trim(sends[1].inputMessage) = <<>>
    /\ \A i \in 1..3 : sends[i].pc = "done"
    /\ Len(messages) = 5
    /\ messages[1].sender = "ai"
    /\ messages[2] = Message("user", sends[2].inputMessage)
    /\ messages[3].sender = "ai" /\ messages[3].text \in Answers
    /\ messages[4] = Message("user", sends[3].inputMessage)
    /\ messages[5] = Message("ai", Apology)

====
